---- MODULE Spec2Model ----
(***************************************************************************)
(* A model of pure_eval: the Evaluator session (core.py), the static       *)
(* attribute resolver (my_getattr_static.py) and the safety predicates     *)
(* (utils.py).                                                             *)
(*                                                                         *)
(* Python values are tuples whose first element is the name of the exact   *)
(* type (or "obj"/"class" for instances and classes of the object model),  *)
(* so that type(x) is a lookup and never a subclass test.  Outcomes of a   *)
(* call are records [k, v]: k = "ok" with the returned value v, or k = the *)
(* name of the exception that reached the caller.                          *)
(***************************************************************************)
EXTENDS Integers, Sequences, FiniteSets, TLC

VARIABLES
    names,      \* Evaluator.names: the mapping handed to the constructor
    root,       \* the tree the session's caller walks (index into Trees)
    cache,      \* Evaluator._cache: node -> value (CannotEval itself marks a failure)
    handled,    \* ghost: how many times _handle(node) ran in this session
    seen,       \* ghost: first outcome the caller observed from evaluator[node]
    last,       \* ghost: the operation that just returned, its argument and outcome
    ga          \* the getattr_static call that just returned: object, attribute, outcome

vars == <<names, root, cache, handled, seen, last, ga>>

(***************************************************************************)
(* Values                                                                  *)
(***************************************************************************)
IntV(n) == <<"int", n>>
BoolV(b) == <<"bool", b>>
StrV(s) == <<"str", s>>                  \* s: a sequence of one-character strings
NoneV == <<"NoneType", 0>>
ListV(s) == <<"list", s>>
TupleV(s) == <<"tuple", s>>
SetV(s) == <<"set", s>>                 \* s: distinct elements in insertion order
DictV(items, pad) == <<"dict", items, pad>>  \* items: <<key, value>> pairs; pad: further int keys 1000..1000+pad-1
SliceV(a, b, c) == <<"slice", a, b, c>>
Obj(id) == <<"obj", id>>                \* an instance described by Objects[id]
Class(id) == <<"class", id>>            \* a type object described by Classes[id]
Function(name) == <<"function", name>>
Property(name) == <<"property", name>>
GetSet(name, objclass) == <<"getset_descriptor", name, objclass>>
Member(name, objclass) == <<"member_descriptor", name, objclass>>
Wrapper(name, objclass) == <<"wrapper_descriptor", name, objclass>>
MethodDescr(name, objclass) == <<"method_descriptor", name, objclass>>
BoundMethod(f, self) == <<"method", f, self>>
BuiltinMethod(name, self) == <<"builtin_function_or_method", name, self>>
MethodWrapper(name, self) == <<"method-wrapper", name, self>>
Module(id) == <<"module", id>>

Ok(v) == [k |-> "ok", v |-> v]
Raise(e) == [k |-> e, v |-> NoneV]

\* the exception class CannotEval, which core.py also stores in the memo table
CannotEval == Class("CannotEval")

_sentinel == <<"_sentinel", 0>>

EmptyNs == <<>>

Cls(meta, mro, ns) == [meta |-> meta, mro |-> mro, ns |-> ns]

Hook(name, cls) == name :> Wrapper(name, cls)

(***************************************************************************)
(* The object model: every class with its metaclass, its MRO and its own   *)
(* namespace (entry.__dict__).  Built-in classes list the entries the      *)
(* resolver can reach; user classes are the fixtures of the test suite.    *)
(***************************************************************************)
BuiltinClasses ==
       ("object" :> Cls("type", <<"object">>, EmptyNs))
    @@ ("type" :> Cls("type", <<"type", "object">>, "__dict__" :> GetSet("__dict__", "type")))
    @@ ("int" :> Cls("type", <<"int", "object">>,
            ("__add__" :> Wrapper("__add__", "int")) @@ ("real" :> GetSet("real", "int"))))
    @@ ("bool" :> Cls("type", <<"bool", "int", "object">>, EmptyNs))
    @@ ("str" :> Cls("type", <<"str", "object">>,
            ("__add__" :> Wrapper("__add__", "str")) @@ ("lower" :> MethodDescr("lower", "str"))))
    @@ ("NoneType" :> Cls("type", <<"NoneType", "object">>, EmptyNs))
    @@ ("list" :> Cls("type", <<"list", "object">>, EmptyNs))
    @@ ("tuple" :> Cls("type", <<"tuple", "object">>, EmptyNs))
    @@ ("set" :> Cls("type", <<"set", "object">>, EmptyNs))
    @@ ("dict" :> Cls("type", <<"dict", "object">>, EmptyNs))
    @@ ("slice" :> Cls("type", <<"slice", "object">>, EmptyNs))
    @@ ("module" :> Cls("type", <<"module", "object">>, "__dict__" :> Member("__dict__", "module")))
    @@ ("function" :> Cls("type", <<"function", "object">>,
            Hook("__get__", "function") @@ ("__dict__" :> GetSet("__dict__", "function"))))
    @@ ("property" :> Cls("type", <<"property", "object">>,
            Hook("__get__", "property") @@ Hook("__set__", "property") @@ Hook("__delete__", "property")))
    @@ ("getset_descriptor" :> Cls("type", <<"getset_descriptor", "object">>,
            Hook("__get__", "getset_descriptor") @@ Hook("__set__", "getset_descriptor")
            @@ Hook("__delete__", "getset_descriptor")))
    @@ ("member_descriptor" :> Cls("type", <<"member_descriptor", "object">>,
            Hook("__get__", "member_descriptor") @@ Hook("__set__", "member_descriptor")
            @@ Hook("__delete__", "member_descriptor")))
    @@ ("wrapper_descriptor" :> Cls("type", <<"wrapper_descriptor", "object">>,
            Hook("__get__", "wrapper_descriptor")))
    @@ ("method_descriptor" :> Cls("type", <<"method_descriptor", "object">>,
            Hook("__get__", "method_descriptor")))
    @@ ("method" :> Cls("type", <<"method", "object">>, EmptyNs))
    @@ ("builtin_function_or_method" :> Cls("type", <<"builtin_function_or_method", "object">>, EmptyNs))
    @@ ("method-wrapper" :> Cls("type", <<"method-wrapper", "object">>, EmptyNs))
    @@ ("BaseException" :> Cls("type", <<"BaseException", "object">>,
            "__dict__" :> GetSet("__dict__", "BaseException")))
    @@ ("Exception" :> Cls("type", <<"Exception", "BaseException", "object">>, EmptyNs))

\* a user class that adds the default per-instance storage
OwnDict(c) == "__dict__" :> GetSet("__dict__", c)

UserClasses ==
    \* utils.py: class CannotEval(Exception)
       ("CannotEval" :> Cls("type", <<"CannotEval", "Exception", "BaseException", "object">>,
            "__repr__" :> Function("CannotEval.__repr__")))
    \* test_basic / test_inherited / test_instance_attr
    @@ ("Thing" :> Cls("type", <<"Thing", "object">>, ("x" :> IntV(2)) @@ OwnDict("Thing")))
    @@ ("OtherThing" :> Cls("type", <<"OtherThing", "Thing", "object">>, EmptyNs))
    \* test_descriptor: the descriptor class as first defined, with __set__ added,
    \* and with __set__ removed and __delete__ added
    @@ ("descriptor" :> Cls("type", <<"descriptor", "object">>,
            ("__get__" :> Function("descriptor.__get__")) @@ OwnDict("descriptor")))
    @@ ("descriptorSet" :> Cls("type", <<"descriptorSet", "object">>,
            ("__get__" :> Function("descriptor.__get__")) @@ ("__set__" :> Function("lambda"))
            @@ OwnDict("descriptorSet")))
    @@ ("descriptorDel" :> Cls("type", <<"descriptorDel", "object">>,
            ("__get__" :> Function("descriptor.__get__")) @@ ("__delete__" :> Function("lambda"))
            @@ OwnDict("descriptorDel")))
    @@ ("Foo" :> Cls("type", <<"Foo", "object">>, ("d" :> Obj("desc")) @@ OwnDict("Foo")))
    @@ ("FooSet" :> Cls("type", <<"FooSet", "object">>, ("d" :> Obj("descSet")) @@ OwnDict("FooSet")))
    @@ ("FooDel" :> Cls("type", <<"FooDel", "object">>, ("d" :> Obj("descDel")) @@ OwnDict("FooDel")))
    \* test_slots, and a class whose slots include __dict__
    @@ ("Slotted" :> Cls("type", <<"Slotted", "object">>,
            ("y" :> StrV(<<"b", "a", "r">>)) @@ ("x" :> Member("x", "Slotted"))))
    @@ ("SlotDict" :> Cls("type", <<"SlotDict", "object">>,
            ("x" :> Member("x", "SlotDict")) @@ OwnDict("SlotDict")))
    \* test_metaclass / test_metaclass_with_descriptor
    @@ ("meta" :> Cls("type", <<"meta", "type", "object">>,
            ("attr" :> StrV(<<"f", "o", "o">>)) @@ ("d" :> Obj("desc"))))
    @@ ("MetaThing" :> Cls("meta", <<"MetaThing", "object">>, ("x" :> IntV(3)) @@ OwnDict("MetaThing")))
    @@ ("SubThing" :> Cls("meta", <<"SubThing", "MetaThing", "object">>, EmptyNs))
    \* test_dict_as_property
    @@ ("DictProp" :> Cls("type", <<"DictProp", "dict", "object">>,
            ("a" :> IntV(3)) @@ ("__dict__" :> Property("DictProp.__dict__"))))
    \* test_metaclass_dict_as_property
    @@ ("DictPropMeta" :> Cls("type", <<"DictPropMeta", "type", "object">>,
            "__dict__" :> Property("DictPropMeta.__dict__")))
    @@ ("Spam" :> Cls("DictPropMeta", <<"Spam", "object">>, ("a" :> IntV(4)) @@ OwnDict("Spam")))
    \* test_eval_attrs: class Foo with bar, prop and method
    @@ ("Attrs" :> Cls("type", <<"Attrs", "object">>,
            ("y" :> IntV(9)) @@ ("prop" :> Property("Attrs.prop"))
            @@ ("method" :> Function("method")) @@ OwnDict("Attrs")))
    \* test_eval_dict: class BadHash
    @@ ("BadHash" :> Cls("type", <<"BadHash", "object">>,
            ("__hash__" :> Function("BadHash.__hash__")) @@ OwnDict("BadHash")))
    \* test_is_expression_interesting: the class of the built-in help
    @@ ("_Helper" :> Cls("type", <<"_Helper", "object">>, OwnDict("_Helper")))

Classes == BuiltinClasses @@ UserClasses

Unset == <<"unset", 0>>

Inst(cls, idict, slots) == [cls |-> cls, idict |-> idict, slots |-> slots]

\* the instances of the fixtures: class, instance dictionary, slot contents
Objects ==
       ("thing" :> Inst("Thing", EmptyNs, EmptyNs))
    @@ ("thing3" :> Inst("Thing", "x" :> IntV(3), EmptyNs))
    @@ ("other" :> Inst("OtherThing", EmptyNs, EmptyNs))
    @@ ("desc" :> Inst("descriptor", EmptyNs, EmptyNs))
    @@ ("descSet" :> Inst("descriptorSet", EmptyNs, EmptyNs))
    @@ ("descDel" :> Inst("descriptorDel", EmptyNs, EmptyNs))
    @@ ("foo" :> Inst("Foo", "d" :> IntV(1), EmptyNs))
    @@ ("fooSet" :> Inst("FooSet", "d" :> IntV(1), EmptyNs))
    @@ ("fooDel" :> Inst("FooDel", "d" :> IntV(1), EmptyNs))
    @@ ("fooBare" :> Inst("FooSet", EmptyNs, EmptyNs))
    @@ ("slotted" :> Inst("Slotted", EmptyNs, "x" :> StrV(<<"f", "o", "o">>)))
    @@ ("slottedDel" :> Inst("Slotted", EmptyNs, "x" :> Unset))
    @@ ("slotDict" :> Inst("SlotDict", "x" :> IntV(1), "x" :> IntV(7)))
    @@ ("slotDictUnset" :> Inst("SlotDict", "x" :> IntV(1), "x" :> Unset))
    @@ ("dictProp" :> Inst("DictProp", "a" :> IntV(4), EmptyNs))
    @@ ("spam" :> Inst("Spam", "x" :> IntV(42), EmptyNs))
    @@ ("attrs" :> Inst("Attrs", "x" :> IntV(44), EmptyNs))
    @@ ("b" :> Inst("BadHash", EmptyNs, EmptyNs))
    @@ ("help" :> Inst("_Helper", EmptyNs, EmptyNs))

\* the modules of the fixtures with their dictionaries
Modules ==
    "sys" :> ("version" :> StrV(<<"3">>))

(***************************************************************************)
(* Primitives of the object model the resolver relies on                   *)
(***************************************************************************)
\* type(x)
TypeOf(x) ==
    CASE x[1] = "obj" -> Objects[x[2]].cls
      [] x[1] = "class" -> Classes[x[2]].meta
      [] OTHER -> x[1]

\* isinstance(x, cls) as the built-in descriptors test it
IsInstance(x, cls) == \E i \in DOMAIN Classes[TypeOf(x)].mro : Classes[TypeOf(x)].mro[i] = cls

\* the storage behind the default __dict__ accessor of obj
StoredDict(obj) ==
    CASE obj[1] = "obj" -> Objects[obj[2]].idict
      [] obj[1] = "module" -> Modules[obj[2]]
      [] OTHER -> EmptyNs

\* the content of slot `name` of obj
SlotValue(obj, name) ==
    IF obj[1] = "obj" /\ name \in DOMAIN Objects[obj[2]].slots
    THEN Objects[obj[2]].slots[name]
    ELSE Unset

\* d.__get__(obj) of the built-in descriptor types, called with one argument
DescrGet(d, obj) ==
    IF obj = NoneV \/ ~IsInstance(obj, d[3]) THEN Raise("TypeError")
    ELSE CASE d[1] = "member_descriptor" ->
                IF SlotValue(obj, d[2]) = Unset THEN Raise("AttributeError")
                ELSE Ok(SlotValue(obj, d[2]))
           [] d[1] = "method_descriptor" -> Ok(BuiltinMethod(d[2], obj))
           [] d[1] = "wrapper_descriptor" -> Ok(MethodWrapper(d[2], obj))

(***************************************************************************)
(* utils.py                                                                *)
(***************************************************************************)
is_any(x, args) == x \in args

of_type(x, types) == IF is_any(TypeOf(x), types) THEN Ok(x) ELSE Raise("CannotEval")

(***************************************************************************)
(* my_getattr_static.py                                                    *)
(***************************************************************************)
_static_getmro(klass) == Classes[klass].mro

_is_type(obj) == obj[1] = "class"

RECURSIVE ShadowedFrom(_, _)
ShadowedFrom(mro, i) ==
    IF i > Len(mro) THEN _sentinel
    ELSE LET entry == mro[i]
             ns == Classes[entry].ns
         IN  IF "__dict__" \in DOMAIN ns /\ ns["__dict__"] # GetSet("__dict__", entry)
             THEN ns["__dict__"]
             ELSE ShadowedFrom(mro, i + 1)

_shadowed_dict(klass) == ShadowedFrom(_static_getmro(klass), 1)

RECURSIVE CheckClassFrom(_, _, _)
CheckClassFrom(mro, i, attr) ==
    IF i > Len(mro) THEN _sentinel
    ELSE LET entry == mro[i]
         IN  IF _shadowed_dict(Classes[entry].meta) = _sentinel /\ attr \in DOMAIN Classes[entry].ns
             THEN Classes[entry].ns[attr]
             ELSE CheckClassFrom(mro, i + 1, attr)

_check_class(klass, attr) == CheckClassFrom(_static_getmro(klass), 1, attr)

_check_instance(obj, attr) ==
    LET instance_dict ==
            IF \E i \in DOMAIN _static_getmro(TypeOf(obj)) :
                   "__dict__" \in DOMAIN Classes[_static_getmro(TypeOf(obj))[i]].ns
            THEN StoredDict(obj)
            ELSE EmptyNs
    IN  IF attr \in DOMAIN instance_dict THEN instance_dict[attr] ELSE _sentinel

slot_descriptor == "member_descriptor"
wrapper_descriptor == "wrapper_descriptor"
method_descriptor == "method_descriptor"

_resolve_descriptor(d, obj) ==
    IF of_type(d, {slot_descriptor, wrapper_descriptor, method_descriptor}).k = "ok"
    THEN DescrGet(d, obj)
    ELSE Raise("CannotEval")

\* getattr_static that lets the instance entry win over every class-level value
GetattrInstanceFirst(obj, attr) ==
    LET klass == IF ~_is_type(obj) THEN TypeOf(obj) ELSE obj[2]
        dict_attr == _shadowed_dict(klass)
        instance_result ==
            IF ~_is_type(obj) /\ (dict_attr = _sentinel \/ TypeOf(dict_attr) = "member_descriptor")
            THEN _check_instance(obj, attr)
            ELSE _sentinel
        klass_result == _check_class(klass, attr)
    IN  IF instance_result # _sentinel THEN Ok(instance_result)
        ELSE IF klass_result # _sentinel
        THEN IF _check_class(TypeOf(klass_result), "__get__") = _sentinel
             THEN Ok(klass_result)
             ELSE _resolve_descriptor(klass_result, obj)
        ELSE IF _is_type(obj) /\ _check_class(Classes[klass].meta, attr) # _sentinel
        THEN Ok(_check_class(Classes[klass].meta, attr))
        ELSE Raise("CannotEval")

getattr_static(obj, attr) ==
    LET klass == IF ~_is_type(obj) THEN TypeOf(obj) ELSE obj[2]
        dict_attr == _shadowed_dict(klass)
        instance_result ==
            IF ~_is_type(obj) /\ (dict_attr = _sentinel \/ TypeOf(dict_attr) = "member_descriptor")
            THEN _check_instance(obj, attr)
            ELSE _sentinel
        klass_result == _check_class(klass, attr)
    IN  IF /\ instance_result # _sentinel
           /\ klass_result # _sentinel
           /\ _check_class(TypeOf(klass_result), "__get__") # _sentinel
           /\ _check_class(TypeOf(klass_result), "__set__") # _sentinel
        THEN _resolve_descriptor(klass_result, obj)
        ELSE IF instance_result # _sentinel THEN Ok(instance_result)
        ELSE IF klass_result # _sentinel
        THEN IF _check_class(TypeOf(klass_result), "__get__") = _sentinel
             THEN Ok(klass_result)
             ELSE _resolve_descriptor(klass_result, obj)
        ELSE IF _is_type(obj) /\ _check_class(Classes[klass].meta, attr) # _sentinel
        THEN Ok(_check_class(Classes[klass].meta, attr))
        ELSE Raise("CannotEval")

(***************************************************************************)
(* The language's own attribute lookup, getattr(obj, attr), which the      *)
(* tests compare getattr_static with: object.__getattribute__ for          *)
(* instances and type.__getattribute__ for classes.                        *)
(***************************************************************************)
\* _PyType_Lookup: the first namespace along the MRO that has the name
RECURSIVE LookupFrom(_, _, _)
LookupFrom(mro, i, attr) ==
    IF i > Len(mro) THEN _sentinel
    ELSE IF attr \in DOMAIN Classes[mro[i]].ns THEN Classes[mro[i]].ns[attr]
    ELSE LookupFrom(mro, i + 1, attr)

TypeLookup(klass, attr) == LookupFrom(Classes[klass].mro, 1, attr)

HasGet(v) == TypeLookup(TypeOf(v), "__get__") # _sentinel

\* a data descriptor: its type fills tp_descr_set, i.e. defines __set__ or __delete__
IsDataDescriptor(v) ==
    \/ TypeLookup(TypeOf(v), "__set__") # _sentinel
    \/ TypeLookup(TypeOf(v), "__delete__") # _sentinel

\* what the read hooks written in Python return in the fixtures
UserGet(d) ==
    CASE d[1] = "obj" /\ TypeOf(d) \in {"descriptor", "descriptorSet", "descriptorDel"} -> Ok(IntV(3))
      [] d = Property("Attrs.prop") -> Ok(IntV(0))
      [] d \in {Property("DictProp.__dict__"), Property("DictPropMeta.__dict__")} -> Raise("ZeroDivisionError")

\* type(d).__get__(d, instance, owner); instance = NoneV for a lookup on the class
Invoke(d, instance, owner) ==
    CASE d[1] = "obj" -> UserGet(d)
      [] d[1] = "property" -> IF instance = NoneV THEN Ok(d) ELSE UserGet(d)
      [] d[1] = "function" -> IF instance = NoneV THEN Ok(d) ELSE Ok(BoundMethod(d, instance))
      [] d[1] \in {"member_descriptor", "method_descriptor", "wrapper_descriptor"} ->
            IF instance = NoneV THEN Ok(d) ELSE DescrGet(d, instance)

GetAttr(obj, attr) ==
    IF obj[1] = "class"
    THEN LET meta_attr == TypeLookup(TypeOf(obj), attr)
             attribute == TypeLookup(obj[2], attr)
         IN  IF meta_attr # _sentinel /\ HasGet(meta_attr) /\ IsDataDescriptor(meta_attr)
             THEN Invoke(meta_attr, obj, TypeOf(obj))
             ELSE IF attribute # _sentinel
             THEN IF HasGet(attribute) THEN Invoke(attribute, NoneV, obj[2]) ELSE Ok(attribute)
             ELSE IF meta_attr # _sentinel
             THEN IF HasGet(meta_attr) THEN Invoke(meta_attr, obj, TypeOf(obj)) ELSE Ok(meta_attr)
             ELSE Raise("AttributeError")
    ELSE LET descr == TypeLookup(TypeOf(obj), attr)
         IN  IF descr # _sentinel /\ HasGet(descr) /\ IsDataDescriptor(descr)
             THEN Invoke(descr, obj, TypeOf(obj))
             ELSE IF attr \in DOMAIN StoredDict(obj) THEN Ok(StoredDict(obj)[attr])
             ELSE IF descr # _sentinel
             THEN IF HasGet(descr) THEN Invoke(descr, obj, TypeOf(obj)) ELSE Ok(descr)
             ELSE Raise("AttributeError")

(***************************************************************************)
(* Python primitives on the modelled values                                *)
(***************************************************************************)
IsNum(v) == v[1] \in {"int", "bool"}

Num(v) == IF v[1] = "bool" THEN (IF v[2] THEN 1 ELSE 0) ELSE v[2]

\* a == b for the keys a hash lookup compares
RECURSIVE PyEq(_, _)
PyEq(a, b) ==
    IF IsNum(a) /\ IsNum(b) THEN Num(a) = Num(b)
    ELSE IF a[1] = "tuple" /\ b[1] = "tuple"
    THEN Len(a[2]) = Len(b[2]) /\ \A i \in DOMAIN a[2] : PyEq(a[2][i], b[2][i])
    ELSE a = b

\* hash(v) succeeds
RECURSIVE Hashable(_)
Hashable(v) ==
    CASE v[1] \in {"list", "dict", "set"} -> FALSE
      [] v[1] = "tuple" -> \A i \in DOMAIN v[2] : Hashable(v[2][i])
      [] OTHER -> TRUE

\* s.add(v) on the elements of a set
SetAdd(s, v) == IF \E e \in s : PyEq(e, v) THEN s ELSE s \cup {v}

\* d[k] = v on the items of a dict
DictSet(items, k, v) ==
    IF \E i \in DOMAIN items : PyEq(items[i][1], k)
    THEN [i \in DOMAIN items |-> IF PyEq(items[i][1], k) THEN <<items[i][1], v>> ELSE items[i]]
    ELSE Append(items, <<k, v>>)

DictLen(d) == Len(d[2]) + d[3]

\* the keys of a dict that are listed
DictKeys(d) == [i \in DOMAIN d[2] |-> d[2][i][1]]

\* d[k] on an exact dict with a hashable key; the keys of a dict too large to list that
\* are not listed are the d[3] ints from 1000 on, each mapped to 0
DictGet(d, k) ==
    IF \E i \in DOMAIN d[2] : PyEq(d[2][i][1], k)
    THEN Ok(d[2][CHOOSE i \in DOMAIN d[2] : PyEq(d[2][i][1], k)][2])
    ELSE IF IsNum(k) /\ Num(k) >= 1000 /\ Num(k) < 1000 + d[3] THEN Ok(IntV(0))
    ELSE Raise("KeyError")

\* bool(v) for the types whose truth value is built in
Truth(v) ==
    CASE v[1] = "bool" -> v[2]
      [] v[1] = "int" -> v[2] # 0
      [] v[1] \in {"str", "list", "tuple"} -> Len(v[2]) > 0
      [] v[1] = "set" -> v[2] # {}
      [] v[1] = "dict" -> DictLen(v) > 0
      [] v[1] = "NoneType" -> FALSE

\* the items start, start+step, ... of a slice, 0-based and already clipped to the sequence
RECURSIVE SliceTake(_, _, _, _)
SliceTake(s, i, stop, step) ==
    IF (step > 0 /\ i >= stop) \/ (step < 0 /\ i <= stop) THEN <<>>
    ELSE <<s[i + 1]>> \o SliceTake(s, i + step, stop, step)

\* slice.indices: a bound of a slice adjusted to a sequence of length n
SliceBound(b, n, step, default) ==
    IF b = NoneV THEN default
    ELSE LET v == Num(b)
             w == IF v < 0 THEN v + n ELSE v
         IN  IF w < 0 THEN (IF step < 0 THEN -1 ELSE 0)
             ELSE IF w >= n THEN (IF step < 0 THEN n - 1 ELSE n)
             ELSE w

\* value[index] for value a list, tuple or str and index an int, a bool or a slice of those
SeqGet(value, index) ==
    LET s == value[2]
        n == Len(s)
    IN  IF index[1] = "slice"
        THEN LET step == IF index[4] = NoneV THEN 1 ELSE Num(index[4])
             IN  IF step = 0 THEN Raise("ValueError")
                 ELSE Ok(<<value[1],
                           SliceTake(s,
                                     SliceBound(index[2], n, step, IF step < 0 THEN n - 1 ELSE 0),
                                     SliceBound(index[3], n, step, IF step < 0 THEN -1 ELSE n),
                                     step)>>)
        ELSE LET i == IF Num(index) < 0 THEN Num(index) + n ELSE Num(index)
             IN  IF i < 0 \/ i >= n THEN Raise("IndexError")
                 ELSE IF value[1] = "str" THEN Ok(StrV(<<s[i + 1]>>))
                 ELSE Ok(s[i + 1])

\* floor division and remainder as Python defines them for ints, divisor not 0
FloorDiv(l, r) == IF r > 0 THEN l \div r ELSE (0 - l) \div (0 - r)

PyMod(l, r) == l - r * FloorDiv(l, r)

\* a bitwise operator on two ints that are not negative
RECURSIVE BitOp(_, _, _)
BitOp(op, a, b) ==
    IF a = 0 /\ b = 0 THEN 0
    ELSE LET x == a % 2
             y == b % 2
             bit == CASE op = "BitOr" -> IF x + y > 0 THEN 1 ELSE 0
                      [] op = "BitXor" -> IF x # y THEN 1 ELSE 0
                      [] op = "BitAnd" -> IF x + y = 2 THEN 1 ELSE 0
         IN  bit + 2 * BitOp(op, a \div 2, b \div 2)

RECURSIVE Gcd(_, _)
Gcd(a, b) == IF b = 0 THEN a ELSE Gcd(b, a % b)

Abs(a) == IF a < 0 THEN 0 - a ELSE a

\* the float n/d, d not 0, as a reduced fraction
FloatV(n, d) ==
    LET g == Gcd(Abs(n), Abs(d))
        sign == IF d < 0 THEN -1 ELSE 1
    IN  <<"float", (sign * n) \div g, Abs(d) \div g>>

\* operator.<op>(l, r) on ints and bools
NumBinary(op, l, r) ==
    LET a == Num(l)
        b == Num(r)
    IN  CASE op = "Add" -> Ok(IntV(a + b))
          [] op = "Sub" -> Ok(IntV(a - b))
          [] op = "Mult" -> Ok(IntV(a * b))
          [] op = "Div" -> IF b = 0 THEN Raise("ZeroDivisionError") ELSE Ok(FloatV(a, b))
          [] op = "FloorDiv" -> IF b = 0 THEN Raise("ZeroDivisionError") ELSE Ok(IntV(FloorDiv(a, b)))
          [] op = "Mod" -> IF b = 0 THEN Raise("ZeroDivisionError") ELSE Ok(IntV(PyMod(a, b)))
          [] op = "Pow" /\ b >= 0 -> Ok(IntV(a ^ b))
          [] op = "Pow" /\ b < 0 -> IF a = 0 THEN Raise("ZeroDivisionError") ELSE Ok(FloatV(1, a ^ (0 - b)))
          [] op = "LShift" -> IF b < 0 THEN Raise("ValueError") ELSE Ok(IntV(a * 2 ^ b))
          [] op = "RShift" -> IF b < 0 THEN Raise("ValueError") ELSE Ok(IntV(FloorDiv(a, 2 ^ b)))
          [] op \in {"BitOr", "BitXor", "BitAnd"} /\ a >= 0 /\ b >= 0 ->
                IF l[1] = "bool" /\ r[1] = "bool"
                THEN Ok(BoolV(BitOp(op, a, b) = 1))
                ELSE Ok(IntV(BitOp(op, a, b)))

RECURSIVE Repeat(_, _)
Repeat(s, n) == IF n <= 0 THEN <<>> ELSE s \o Repeat(s, n - 1)

SeqTypes == {"str", "list", "tuple"}

\* repr(v) as a sequence of characters, for ints, bools, None, strs without quotes or
\* escapes, and lists and tuples of these
RECURSIVE PyRepr(_)
PyRepr(v) ==
    LET digits == <<"0", "1", "2", "3", "4", "5", "6", "7", "8", "9">>
        RECURSIVE Join(_, _)
        Join(items, i) ==
            IF i > Len(items) THEN <<>>
            ELSE (IF i > 1 THEN <<",", " ">> ELSE <<>>) \o PyRepr(items[i]) \o Join(items, i + 1)
    IN  CASE v[1] = "int" ->
                IF v[2] < 0 THEN <<"-">> \o PyRepr(IntV(0 - v[2]))
                ELSE IF v[2] < 10 THEN <<digits[v[2] + 1]>>
                ELSE PyRepr(IntV(v[2] \div 10)) \o <<digits[(v[2] % 10) + 1]>>
          [] v[1] = "bool" -> IF v[2] THEN <<"T", "r", "u", "e">> ELSE <<"F", "a", "l", "s", "e">>
          [] v[1] = "NoneType" -> <<"N", "o", "n", "e">>
          [] v[1] = "str" -> <<"'">> \o v[2] \o <<"'">>
          [] v[1] = "list" -> <<"[">> \o Join(v[2], 1) \o <<"]">>
          [] v[1] = "tuple" ->
                <<"(">> \o Join(v[2], 1) \o (IF Len(v[2]) = 1 THEN <<",">> ELSE <<>>) \o <<")">>

\* format % arg for a str whose only conversion is %s: a tuple gives one argument per
\* conversion, any other value is the one argument; an argument left over is an error
\* unless arg is a list or a dict
PyFormat(format, arg) ==
    LET args == IF arg[1] = "tuple" THEN arg[2] ELSE <<arg>>
        Str(v) == IF v[1] = "str" THEN v[2] ELSE PyRepr(v)
        RECURSIVE Fill(_, _, _)
        Fill(p, k, acc) ==
            IF p > Len(format)
            THEN IF k > Len(args) \/ arg[1] \in {"list", "dict"} THEN Ok(StrV(acc)) ELSE Raise("TypeError")
            ELSE IF format[p] # "%" THEN Fill(p + 1, k, Append(acc, format[p]))
            ELSE IF p = Len(format) \/ format[p + 1] # "s" THEN Raise("ValueError")
            ELSE IF k > Len(args) THEN Raise("TypeError")
            ELSE Fill(p + 2, k + 1, acc \o Str(args[k]))
    IN  Fill(1, 1, <<>>)

\* operator.<op>(l, r) for the operators of the fixtures on ints, bools, strs, lists, tuples,
\* and for + and - with a dict or an instance of a class without operators
PyBinary(op, l, r) ==
    CASE op = "MatMult" -> Raise("TypeError")
      [] op # "MatMult" /\ IsNum(l) /\ IsNum(r) -> NumBinary(op, l, r)
      [] op = "Mod" /\ l[1] = "str" -> PyFormat(l[2], r)
      [] /\ op \in {"Add", "Sub"}
         /\ (l[1] \in {"dict", "obj"} \/ r[1] \in {"dict", "obj"}) -> Raise("TypeError")
      [] op = "Add" /\ l[1] \in SeqTypes /\ r[1] = l[1] -> Ok(<<l[1], l[2] \o r[2]>>)
      [] op = "Mult" /\ l[1] \in SeqTypes /\ IsNum(r) -> Ok(<<l[1], Repeat(l[2], Num(r))>>)
      [] op = "Mult" /\ IsNum(l) /\ r[1] \in SeqTypes -> Ok(<<r[1], Repeat(r[2], Num(l))>>)
      [] /\ ~(op = "Add" /\ l[1] \in SeqTypes /\ r[1] = l[1])
         /\ ~(op = "Mult" /\ ((l[1] \in SeqTypes /\ IsNum(r)) \/ (IsNum(l) /\ r[1] \in SeqTypes)))
         /\ ~(op = "Mod" /\ l[1] = "str")
         /\ op # "MatMult"
         /\ ~(IsNum(l) /\ IsNum(r))
         /\ l[1] \in SeqTypes \cup {"int", "bool"}
         /\ r[1] \in SeqTypes \cup {"int", "bool"} -> Raise("TypeError")

\* operator.neg, pos, not_, invert on the types _handle_unary lets through
PyUnary(op, v) ==
    CASE op = "Not" -> Ok(BoolV(~Truth(v)))
      [] op = "USub" /\ IsNum(v) -> Ok(IntV(0 - Num(v)))
      [] op = "UAdd" /\ IsNum(v) -> Ok(IntV(Num(v)))
      [] op = "Invert" /\ IsNum(v) -> Ok(IntV(0 - Num(v) - 1))
      [] op # "Not" /\ v[1] \in {"str", "list", "tuple", "set", "dict", "NoneType"} -> Raise("TypeError")

(***************************************************************************)
(* utils.py: safe_hash_key                                                 *)
(***************************************************************************)
RECURSIVE safe_hash_key(_)
safe_hash_key(k) ==
    IF is_any(TypeOf(k), {"str", "int", "bool", "float", "bytes", "type", "complex", "range"}) THEN TRUE
    ELSE IF TypeOf(k) = "tuple" THEN \A i \in DOMAIN k[2] : safe_hash_key(k[2][i])
    ELSE IF TypeOf(k) = "frozenset" THEN \A e \in k[2] : safe_hash_key(e)
    ELSE FALSE

(***************************************************************************)
(* The expression trees.  A node is its kind, its identifier, attribute    *)
(* name or operator, its child nodes in field order (0 where the field is  *)
(* None), the nodes of its second child list (the values of a Dict, the    *)
(* keywords of a Call) and, for a Constant, its value.                     *)
(***************************************************************************)
Nodes == <<
    \* test_eval_names: (x, c), nonexistent
    [kind |-> "Tuple", name |-> "", kids |-> <<2, 3>>, vals |-> <<>>, val |-> NoneV],  \* 1
    [kind |-> "Tuple", name |-> "", kids |-> <<4, 5>>, vals |-> <<>>, val |-> NoneV],  \* 2
    [kind |-> "Name", name |-> "nonexistent", kids |-> <<>>, vals |-> <<>>, val |-> NoneV],  \* 3
    [kind |-> "Name", name |-> "x", kids |-> <<>>, vals |-> <<>>, val |-> NoneV],  \* 4
    [kind |-> "Name", name |-> "c", kids |-> <<>>, vals |-> <<>>, val |-> NoneV],  \* 5
    \* test_cannot_subscript: lst[9]
    [kind |-> "Subscript", name |-> "", kids |-> <<7, 8>>, vals |-> <<>>, val |-> NoneV],  \* 6
    [kind |-> "Name", name |-> "lst", kids |-> <<>>, vals |-> <<>>, val |-> NoneV],  \* 7
    [kind |-> "Constant", name |-> "", kids |-> <<>>, vals |-> <<>>, val |-> IntV(9)],  \* 8
    \* test_cannot_subscript: lst[:, :]
    [kind |-> "Subscript", name |-> "", kids |-> <<10, 11>>, vals |-> <<>>, val |-> NoneV],  \* 9
    [kind |-> "Name", name |-> "lst", kids |-> <<>>, vals |-> <<>>, val |-> NoneV],  \* 10
    [kind |-> "Tuple", name |-> "", kids |-> <<12, 13>>, vals |-> <<>>, val |-> NoneV],  \* 11
    [kind |-> "Slice", name |-> "", kids |-> <<0, 0, 0>>, vals |-> <<>>, val |-> NoneV],  \* 12
    [kind |-> "Slice", name |-> "", kids |-> <<0, 0, 0>>, vals |-> <<>>, val |-> NoneV],  \* 13
    \* test_eval_sequence_subscript: lst[::z]
    [kind |-> "Subscript", name |-> "", kids |-> <<15, 16>>, vals |-> <<>>, val |-> NoneV],  \* 14
    [kind |-> "Name", name |-> "lst", kids |-> <<>>, vals |-> <<>>, val |-> NoneV],  \* 15
    [kind |-> "Slice", name |-> "", kids |-> <<0, 0, 17>>, vals |-> <<>>, val |-> NoneV],  \* 16
    [kind |-> "Name", name |-> "z", kids |-> <<>>, vals |-> <<>>, val |-> NoneV],  \* 17
    \* test_eval_sequence_subscript: lst[:i][False]
    [kind |-> "Subscript", name |-> "", kids |-> <<19, 20>>, vals |-> <<>>, val |-> NoneV],  \* 18
    [kind |-> "Subscript", name |-> "", kids |-> <<21, 22>>, vals |-> <<>>, val |-> NoneV],  \* 19
    [kind |-> "Constant", name |-> "", kids |-> <<>>, vals |-> <<>>, val |-> BoolV(FALSE)],  \* 20
    [kind |-> "Name", name |-> "lst", kids |-> <<>>, vals |-> <<>>, val |-> NoneV],  \* 21
    [kind |-> "Slice", name |-> "", kids |-> <<0, 23, 0>>, vals |-> <<>>, val |-> NoneV],  \* 22
    [kind |-> "Name", name |-> "i", kids |-> <<>>, vals |-> <<>>, val |-> NoneV],  \* 23
    \* test_eval_sequence_subscript: lst[i:][i]
    [kind |-> "Subscript", name |-> "", kids |-> <<25, 26>>, vals |-> <<>>, val |-> NoneV],  \* 24
    [kind |-> "Subscript", name |-> "", kids |-> <<27, 28>>, vals |-> <<>>, val |-> NoneV],  \* 25
    [kind |-> "Name", name |-> "i", kids |-> <<>>, vals |-> <<>>, val |-> NoneV],  \* 26
    [kind |-> "Name", name |-> "lst", kids |-> <<>>, vals |-> <<>>, val |-> NoneV],  \* 27
    [kind |-> "Slice", name |-> "", kids |-> <<29, 0, 0>>, vals |-> <<>>, val |-> NoneV],  \* 28
    [kind |-> "Name", name |-> "i", kids |-> <<>>, vals |-> <<>>, val |-> NoneV],  \* 29
    \* test_eval_sequence_subscript: ('abc', 'def')[1][2]
    [kind |-> "Subscript", name |-> "", kids |-> <<31, 32>>, vals |-> <<>>, val |-> NoneV],  \* 30
    [kind |-> "Subscript", name |-> "", kids |-> <<33, 34>>, vals |-> <<>>, val |-> NoneV],  \* 31
    [kind |-> "Constant", name |-> "", kids |-> <<>>, vals |-> <<>>, val |-> IntV(2)],  \* 32
    [kind |-> "Tuple", name |-> "", kids |-> <<35, 36>>, vals |-> <<>>, val |-> NoneV],  \* 33
    [kind |-> "Constant", name |-> "", kids |-> <<>>, vals |-> <<>>, val |-> IntV(1)],  \* 34
    [kind |-> "Constant", name |-> "", kids |-> <<>>, vals |-> <<>>, val |-> StrV(<<"a", "b", "c">>)],  \* 35
    [kind |-> "Constant", name |-> "", kids |-> <<>>, vals |-> <<>>, val |-> StrV(<<"d", "e", "f">>)],  \* 36
    \* test_eval_dict: d[1]
    [kind |-> "Subscript", name |-> "", kids |-> <<38, 39>>, vals |-> <<>>, val |-> NoneV],  \* 37
    [kind |-> "Name", name |-> "d", kids |-> <<>>, vals |-> <<>>, val |-> NoneV],  \* 38
    [kind |-> "Constant", name |-> "", kids |-> <<>>, vals |-> <<>>, val |-> IntV(1)],  \* 39
    \* test_eval_dict: d[b]
    [kind |-> "Subscript", name |-> "", kids |-> <<41, 42>>, vals |-> <<>>, val |-> NoneV],  \* 40
    [kind |-> "Name", name |-> "d", kids |-> <<>>, vals |-> <<>>, val |-> NoneV],  \* 41
    [kind |-> "Name", name |-> "b", kids |-> <<>>, vals |-> <<>>, val |-> NoneV],  \* 42
    \* test_eval_dict: d[:1]
    [kind |-> "Subscript", name |-> "", kids |-> <<44, 45>>, vals |-> <<>>, val |-> NoneV],  \* 43
    [kind |-> "Name", name |-> "d", kids |-> <<>>, vals |-> <<>>, val |-> NoneV],  \* 44
    [kind |-> "Slice", name |-> "", kids |-> <<0, 46, 0>>, vals |-> <<>>, val |-> NoneV],  \* 45
    [kind |-> "Constant", name |-> "", kids |-> <<>>, vals |-> <<>>, val |-> IntV(1)],  \* 46
    \* test_eval_dict: d[0]
    [kind |-> "Subscript", name |-> "", kids |-> <<48, 49>>, vals |-> <<>>, val |-> NoneV],  \* 47
    [kind |-> "Name", name |-> "d", kids |-> <<>>, vals |-> <<>>, val |-> NoneV],  \* 48
    [kind |-> "Constant", name |-> "", kids |-> <<>>, vals |-> <<>>, val |-> IntV(0)],  \* 49
    \* test_eval_dict: d[True]
    [kind |-> "Subscript", name |-> "", kids |-> <<51, 52>>, vals |-> <<>>, val |-> NoneV],  \* 50
    [kind |-> "Name", name |-> "d", kids |-> <<>>, vals |-> <<>>, val |-> NoneV],  \* 51
    [kind |-> "Constant", name |-> "", kids |-> <<>>, vals |-> <<>>, val |-> BoolV(TRUE)],  \* 52
    \* test_eval_dict: big[1]
    [kind |-> "Subscript", name |-> "", kids |-> <<54, 55>>, vals |-> <<>>, val |-> NoneV],  \* 53
    [kind |-> "Name", name |-> "big", kids |-> <<>>, vals |-> <<>>, val |-> NoneV],  \* 54
    [kind |-> "Constant", name |-> "", kids |-> <<>>, vals |-> <<>>, val |-> IntV(1)],  \* 55
    \* test_eval_dict: huge[1]
    [kind |-> "Subscript", name |-> "", kids |-> <<57, 58>>, vals |-> <<>>, val |-> NoneV],  \* 56
    [kind |-> "Name", name |-> "huge", kids |-> <<>>, vals |-> <<>>, val |-> NoneV],  \* 57
    [kind |-> "Constant", name |-> "", kids |-> <<>>, vals |-> <<>>, val |-> IntV(1)],  \* 58
    \* test_eval_dict: d[lst[::z]]
    [kind |-> "Subscript", name |-> "", kids |-> <<60, 61>>, vals |-> <<>>, val |-> NoneV],  \* 59
    [kind |-> "Name", name |-> "d", kids |-> <<>>, vals |-> <<>>, val |-> NoneV],  \* 60
    [kind |-> "Subscript", name |-> "", kids |-> <<62, 63>>, vals |-> <<>>, val |-> NoneV],  \* 61
    [kind |-> "Name", name |-> "lst", kids |-> <<>>, vals |-> <<>>, val |-> NoneV],  \* 62
    [kind |-> "Slice", name |-> "", kids |-> <<0, 0, 64>>, vals |-> <<>>, val |-> NoneV],  \* 63
    [kind |-> "Name", name |-> "z", kids |-> <<>>, vals |-> <<>>, val |-> NoneV],  \* 64
    \* test_eval_dict: t[(1, b)]
    [kind |-> "Subscript", name |-> "", kids |-> <<66, 67>>, vals |-> <<>>, val |-> NoneV],  \* 65
    [kind |-> "Name", name |-> "t", kids |-> <<>>, vals |-> <<>>, val |-> NoneV],  \* 66
    [kind |-> "Tuple", name |-> "", kids |-> <<68, 69>>, vals |-> <<>>, val |-> NoneV],  \* 67
    [kind |-> "Constant", name |-> "", kids |-> <<>>, vals |-> <<>>, val |-> IntV(1)],  \* 68
    [kind |-> "Name", name |-> "b", kids |-> <<>>, vals |-> <<>>, val |-> NoneV],  \* 69
    \* test_eval_dict: t[(1, 3)]
    [kind |-> "Subscript", name |-> "", kids |-> <<71, 72>>, vals |-> <<>>, val |-> NoneV],  \* 70
    [kind |-> "Name", name |-> "t", kids |-> <<>>, vals |-> <<>>, val |-> NoneV],  \* 71
    [kind |-> "Tuple", name |-> "", kids |-> <<73, 74>>, vals |-> <<>>, val |-> NoneV],  \* 72
    [kind |-> "Constant", name |-> "", kids |-> <<>>, vals |-> <<>>, val |-> IntV(1)],  \* 73
    [kind |-> "Constant", name |-> "", kids |-> <<>>, vals |-> <<>>, val |-> IntV(3)],  \* 74
    \* test_descriptor: foo.d
    [kind |-> "Attribute", name |-> "d", kids |-> <<76>>, vals |-> <<>>, val |-> NoneV],  \* 75
    [kind |-> "Name", name |-> "foo", kids |-> <<>>, vals |-> <<>>, val |-> NoneV],  \* 76
    \* test_descriptor: fooSet.d
    [kind |-> "Attribute", name |-> "d", kids |-> <<78>>, vals |-> <<>>, val |-> NoneV],  \* 77
    [kind |-> "Name", name |-> "fooSet", kids |-> <<>>, vals |-> <<>>, val |-> NoneV],  \* 78
    \* test_descriptor: fooDel.d
    [kind |-> "Attribute", name |-> "d", kids |-> <<80>>, vals |-> <<>>, val |-> NoneV],  \* 79
    [kind |-> "Name", name |-> "fooDel", kids |-> <<>>, vals |-> <<>>, val |-> NoneV],  \* 80
    \* test_dict_as_property: dictProp.a
    [kind |-> "Attribute", name |-> "a", kids |-> <<82>>, vals |-> <<>>, val |-> NoneV],  \* 81
    [kind |-> "Name", name |-> "dictProp", kids |-> <<>>, vals |-> <<>>, val |-> NoneV],  \* 82
    \* test_metaclass_with_descriptor: MetaThing.d
    [kind |-> "Attribute", name |-> "d", kids |-> <<84>>, vals |-> <<>>, val |-> NoneV],  \* 83
    [kind |-> "Name", name |-> "MetaThing", kids |-> <<>>, vals |-> <<>>, val |-> NoneV],  \* 84
    \* test_slots: slotted.x, slottedDel.x
    [kind |-> "Tuple", name |-> "", kids |-> <<86, 87>>, vals |-> <<>>, val |-> NoneV],  \* 85
    [kind |-> "Attribute", name |-> "x", kids |-> <<88>>, vals |-> <<>>, val |-> NoneV],  \* 86
    [kind |-> "Attribute", name |-> "x", kids |-> <<89>>, vals |-> <<>>, val |-> NoneV],  \* 87
    [kind |-> "Name", name |-> "slotted", kids |-> <<>>, vals |-> <<>>, val |-> NoneV],  \* 88
    [kind |-> "Name", name |-> "slottedDel", kids |-> <<>>, vals |-> <<>>, val |-> NoneV],  \* 89
    \* test_slots: Slotted.x
    [kind |-> "Attribute", name |-> "x", kids |-> <<91>>, vals |-> <<>>, val |-> NoneV],  \* 90
    [kind |-> "Name", name |-> "Slotted", kids |-> <<>>, vals |-> <<>>, val |-> NoneV],  \* 91
    \* test_eval_attrs: attrs.y + attrs.x
    [kind |-> "BinOp", name |-> "Add", kids |-> <<93, 94>>, vals |-> <<>>, val |-> NoneV],  \* 92
    [kind |-> "Attribute", name |-> "y", kids |-> <<95>>, vals |-> <<>>, val |-> NoneV],  \* 93
    [kind |-> "Attribute", name |-> "x", kids |-> <<96>>, vals |-> <<>>, val |-> NoneV],  \* 94
    [kind |-> "Name", name |-> "attrs", kids |-> <<>>, vals |-> <<>>, val |-> NoneV],  \* 95
    [kind |-> "Name", name |-> "attrs", kids |-> <<>>, vals |-> <<>>, val |-> NoneV],  \* 96
    \* test_eval_unary_op: not s, -s
    [kind |-> "Tuple", name |-> "", kids |-> <<98, 99>>, vals |-> <<>>, val |-> NoneV],  \* 97
    [kind |-> "UnaryOp", name |-> "Not", kids |-> <<100>>, vals |-> <<>>, val |-> NoneV],  \* 98
    [kind |-> "UnaryOp", name |-> "USub", kids |-> <<101>>, vals |-> <<>>, val |-> NoneV],  \* 99
    [kind |-> "Name", name |-> "s", kids |-> <<>>, vals |-> <<>>, val |-> NoneV],  \* 100
    [kind |-> "Name", name |-> "s", kids |-> <<>>, vals |-> <<>>, val |-> NoneV],  \* 101
    \* test_boolop: x // z
    [kind |-> "BinOp", name |-> "FloorDiv", kids |-> <<103, 104>>, vals |-> <<>>, val |-> NoneV],  \* 102
    [kind |-> "Name", name |-> "x", kids |-> <<>>, vals |-> <<>>, val |-> NoneV],  \* 103
    [kind |-> "Name", name |-> "z", kids |-> <<>>, vals |-> <<>>, val |-> NoneV],  \* 104
    \* test_boolop: x or nonexistent
    [kind |-> "BoolOp", name |-> "Or", kids |-> <<106, 107>>, vals |-> <<>>, val |-> NoneV],  \* 105
    [kind |-> "Name", name |-> "x", kids |-> <<>>, vals |-> <<>>, val |-> NoneV],  \* 106
    [kind |-> "Name", name |-> "nonexistent", kids |-> <<>>, vals |-> <<>>, val |-> NoneV],  \* 107
    \* test_boolop: z and b
    [kind |-> "BoolOp", name |-> "And", kids |-> <<109, 110>>, vals |-> <<>>, val |-> NoneV],  \* 108
    [kind |-> "Name", name |-> "z", kids |-> <<>>, vals |-> <<>>, val |-> NoneV],  \* 109
    [kind |-> "Name", name |-> "b", kids |-> <<>>, vals |-> <<>>, val |-> NoneV],  \* 110
    \* test_eval_dict: {x: c}
    [kind |-> "Dict", name |-> "", kids |-> <<112>>, vals |-> <<113>>, val |-> NoneV],  \* 111
    [kind |-> "Name", name |-> "x", kids |-> <<>>, vals |-> <<>>, val |-> NoneV],  \* 112
    [kind |-> "Name", name |-> "c", kids |-> <<>>, vals |-> <<>>, val |-> NoneV],  \* 113
    \* test_eval_literals: (1, 'a', [{}])
    [kind |-> "Tuple", name |-> "", kids |-> <<115, 116, 117>>, vals |-> <<>>, val |-> NoneV],  \* 114
    [kind |-> "Constant", name |-> "", kids |-> <<>>, vals |-> <<>>, val |-> IntV(1)],  \* 115
    [kind |-> "Constant", name |-> "", kids |-> <<>>, vals |-> <<>>, val |-> StrV(<<"a">>)],  \* 116
    [kind |-> "List", name |-> "", kids |-> <<118>>, vals |-> <<>>, val |-> NoneV],  \* 117
    [kind |-> "Dict", name |-> "", kids |-> <<>>, vals |-> <<>>, val |-> NoneV],  \* 118
    \* test_eval_attrs: Attrs.method
    [kind |-> "Attribute", name |-> "method", kids |-> <<120>>, vals |-> <<>>, val |-> NoneV],  \* 119
    [kind |-> "Name", name |-> "Attrs", kids |-> <<>>, vals |-> <<>>, val |-> NoneV],  \* 120
    \* test_eval_attrs: attrs.method
    [kind |-> "Attribute", name |-> "method", kids |-> <<122>>, vals |-> <<>>, val |-> NoneV],  \* 121
    [kind |-> "Name", name |-> "attrs", kids |-> <<>>, vals |-> <<>>, val |-> NoneV],  \* 122
    \* test_eval_attrs: attrs.prop
    [kind |-> "Attribute", name |-> "prop", kids |-> <<124>>, vals |-> <<>>, val |-> NoneV],  \* 123
    [kind |-> "Name", name |-> "attrs", kids |-> <<>>, vals |-> <<>>, val |-> NoneV],  \* 124
    \* test_eval_attrs: Attrs.prop
    [kind |-> "Attribute", name |-> "prop", kids |-> <<126>>, vals |-> <<>>, val |-> NoneV],  \* 125
    [kind |-> "Name", name |-> "Attrs", kids |-> <<>>, vals |-> <<>>, val |-> NoneV],  \* 126
    \* test_calls: len(lst)
    [kind |-> "Call", name |-> "", kids |-> <<128, 129>>, vals |-> <<>>, val |-> NoneV],  \* 127
    [kind |-> "Name", name |-> "len", kids |-> <<>>, vals |-> <<>>, val |-> NoneV],  \* 128
    [kind |-> "Name", name |-> "lst", kids |-> <<>>, vals |-> <<>>, val |-> NoneV],  \* 129
    \* test_calls: abs(x)
    [kind |-> "Call", name |-> "", kids |-> <<131, 132>>, vals |-> <<>>, val |-> NoneV],  \* 130
    [kind |-> "Name", name |-> "abs", kids |-> <<>>, vals |-> <<>>, val |-> NoneV],  \* 131
    [kind |-> "Name", name |-> "x", kids |-> <<>>, vals |-> <<>>, val |-> NoneV],  \* 132
    \* test_calls: len(x)
    [kind |-> "Call", name |-> "", kids |-> <<134, 135>>, vals |-> <<>>, val |-> NoneV],  \* 133
    [kind |-> "Name", name |-> "len", kids |-> <<>>, vals |-> <<>>, val |-> NoneV],  \* 134
    [kind |-> "Name", name |-> "x", kids |-> <<>>, vals |-> <<>>, val |-> NoneV],  \* 135
    \* test_calls: print(x)
    [kind |-> "Call", name |-> "", kids |-> <<137, 138>>, vals |-> <<>>, val |-> NoneV],  \* 136
    [kind |-> "Name", name |-> "print", kids |-> <<>>, vals |-> <<>>, val |-> NoneV],  \* 137
    [kind |-> "Name", name |-> "x", kids |-> <<>>, vals |-> <<>>, val |-> NoneV],  \* 138
    \* test_calls: int(s, base=x)
    [kind |-> "Call", name |-> "", kids |-> <<140, 141>>, vals |-> <<142>>, val |-> NoneV],  \* 139
    [kind |-> "Name", name |-> "int", kids |-> <<>>, vals |-> <<>>, val |-> NoneV],  \* 140
    [kind |-> "Name", name |-> "s", kids |-> <<>>, vals |-> <<>>, val |-> NoneV],  \* 141
    [kind |-> "keyword", name |-> "base", kids |-> <<143>>, vals |-> <<>>, val |-> NoneV],  \* 142
    [kind |-> "Name", name |-> "x", kids |-> <<>>, vals |-> <<>>, val |-> NoneV],  \* 143
    \* test_unsupported: len(*[lst])
    [kind |-> "Call", name |-> "", kids |-> <<145, 146>>, vals |-> <<>>, val |-> NoneV],  \* 144
    [kind |-> "Name", name |-> "len", kids |-> <<>>, vals |-> <<>>, val |-> NoneV],  \* 145
    [kind |-> "Starred", name |-> "", kids |-> <<147>>, vals |-> <<>>, val |-> NoneV],  \* 146
    [kind |-> "List", name |-> "", kids |-> <<148>>, vals |-> <<>>, val |-> NoneV],  \* 147
    [kind |-> "Name", name |-> "lst", kids |-> <<>>, vals |-> <<>>, val |-> NoneV],  \* 148
    \* test_unsupported: [y for y in lst]
    [kind |-> "ListComp", name |-> "", kids |-> <<150>>, vals |-> <<151>>, val |-> NoneV],  \* 149
    [kind |-> "Name", name |-> "y", kids |-> <<>>, vals |-> <<>>, val |-> NoneV],  \* 150
    [kind |-> "comprehension", name |-> "", kids |-> <<152, 153>>, vals |-> <<>>, val |-> NoneV],  \* 151
    [kind |-> "Name", name |-> "y", kids |-> <<>>, vals |-> <<>>, val |-> NoneV],  \* 152
    [kind |-> "Name", name |-> "lst", kids |-> <<>>, vals |-> <<>>, val |-> NoneV],  \* 153
    \* test_unsupported: {**{}}
    [kind |-> "Dict", name |-> "", kids |-> <<0>>, vals |-> <<155>>, val |-> NoneV],  \* 154
    [kind |-> "Dict", name |-> "", kids |-> <<>>, vals |-> <<>>, val |-> NoneV],  \* 155
    \* test_unsupported: [*[]]
    [kind |-> "List", name |-> "", kids |-> <<157>>, vals |-> <<>>, val |-> NoneV],  \* 156
    [kind |-> "Starred", name |-> "", kids |-> <<158>>, vals |-> <<>>, val |-> NoneV],  \* 157
    [kind |-> "List", name |-> "", kids |-> <<>>, vals |-> <<>>, val |-> NoneV],  \* 158
    \* test_group_expressions: x[0] + x[x[0]]
    [kind |-> "BinOp", name |-> "Add", kids |-> <<160, 161>>, vals |-> <<>>, val |-> NoneV],  \* 159
    [kind |-> "Subscript", name |-> "", kids |-> <<162, 163>>, vals |-> <<>>, val |-> NoneV],  \* 160
    [kind |-> "Subscript", name |-> "", kids |-> <<164, 165>>, vals |-> <<>>, val |-> NoneV],  \* 161
    [kind |-> "Name", name |-> "x", kids |-> <<>>, vals |-> <<>>, val |-> NoneV],  \* 162
    [kind |-> "Constant", name |-> "", kids |-> <<>>, vals |-> <<>>, val |-> IntV(0)],  \* 163
    [kind |-> "Name", name |-> "x", kids |-> <<>>, vals |-> <<>>, val |-> NoneV],  \* 164
    [kind |-> "Subscript", name |-> "", kids |-> <<166, 167>>, vals |-> <<>>, val |-> NoneV],  \* 165
    [kind |-> "Name", name |-> "x", kids |-> <<>>, vals |-> <<>>, val |-> NoneV],  \* 166
    [kind |-> "Constant", name |-> "", kids |-> <<>>, vals |-> <<>>, val |-> IntV(0)],  \* 167
    \* test_group_expressions: i = i + 1
    [kind |-> "Assign", name |-> "", kids |-> <<169, 170>>, vals |-> <<>>, val |-> NoneV],  \* 168
    [kind |-> "Name", name |-> "i", kids |-> <<>>, vals |-> <<>>, val |-> NoneV],  \* 169
    [kind |-> "BinOp", name |-> "Add", kids |-> <<171, 172>>, vals |-> <<>>, val |-> NoneV],  \* 170
    [kind |-> "Name", name |-> "i", kids |-> <<>>, vals |-> <<>>, val |-> NoneV],  \* 171
    [kind |-> "Constant", name |-> "", kids |-> <<>>, vals |-> <<>>, val |-> IntV(1)],  \* 172
    \* test_group_expressions: del lst[i], i
    [kind |-> "Delete", name |-> "", kids |-> <<174, 175>>, vals |-> <<>>, val |-> NoneV],  \* 173
    [kind |-> "Subscript", name |-> "", kids |-> <<176, 177>>, vals |-> <<>>, val |-> NoneV],  \* 174
    [kind |-> "Name", name |-> "i", kids |-> <<>>, vals |-> <<>>, val |-> NoneV],  \* 175
    [kind |-> "Name", name |-> "lst", kids |-> <<>>, vals |-> <<>>, val |-> NoneV],  \* 176
    [kind |-> "Name", name |-> "i", kids |-> <<>>, vals |-> <<>>, val |-> NoneV],  \* 177
    \* test_is_expression_interesting: (len, size, help)
    [kind |-> "Tuple", name |-> "", kids |-> <<179, 180, 181>>, vals |-> <<>>, val |-> NoneV],  \* 178
    [kind |-> "Name", name |-> "len", kids |-> <<>>, vals |-> <<>>, val |-> NoneV],  \* 179
    [kind |-> "Name", name |-> "size", kids |-> <<>>, vals |-> <<>>, val |-> NoneV],  \* 180
    [kind |-> "Name", name |-> "help", kids |-> <<>>, vals |-> <<>>, val |-> NoneV],  \* 181
    \* test_boolop: x and lst[::z]
    [kind |-> "BoolOp", name |-> "And", kids |-> <<183, 184>>, vals |-> <<>>, val |-> NoneV],  \* 182
    [kind |-> "Name", name |-> "x", kids |-> <<>>, vals |-> <<>>, val |-> NoneV],  \* 183
    [kind |-> "Subscript", name |-> "", kids |-> <<185, 186>>, vals |-> <<>>, val |-> NoneV],  \* 184
    [kind |-> "Name", name |-> "lst", kids |-> <<>>, vals |-> <<>>, val |-> NoneV],  \* 185
    [kind |-> "Slice", name |-> "", kids |-> <<0, 0, 187>>, vals |-> <<>>, val |-> NoneV],  \* 186
    [kind |-> "Name", name |-> "z", kids |-> <<>>, vals |-> <<>>, val |-> NoneV],  \* 187
    \* test_boolop: z or x or nonexistent
    [kind |-> "BoolOp", name |-> "Or", kids |-> <<189, 190, 191>>, vals |-> <<>>, val |-> NoneV],  \* 188
    [kind |-> "Name", name |-> "z", kids |-> <<>>, vals |-> <<>>, val |-> NoneV],  \* 189
    [kind |-> "Name", name |-> "x", kids |-> <<>>, vals |-> <<>>, val |-> NoneV],  \* 190
    [kind |-> "Name", name |-> "nonexistent", kids |-> <<>>, vals |-> <<>>, val |-> NoneV],  \* 191
    \* test_boolop: z or b
    [kind |-> "BoolOp", name |-> "Or", kids |-> <<193, 194>>, vals |-> <<>>, val |-> NoneV],  \* 192
    [kind |-> "Name", name |-> "z", kids |-> <<>>, vals |-> <<>>, val |-> NoneV],  \* 193
    [kind |-> "Name", name |-> "b", kids |-> <<>>, vals |-> <<>>, val |-> NoneV],  \* 194
    \* test_eval_binary_op: 'a %s c' % x
    [kind |-> "BinOp", name |-> "Mod", kids |-> <<196, 197>>, vals |-> <<>>, val |-> NoneV],  \* 195
    [kind |-> "Constant", name |-> "", kids |-> <<>>, vals |-> <<>>, val |-> StrV(<<"a", " ", "%", "s", " ", "c">>)],  \* 196
    [kind |-> "Name", name |-> "x", kids |-> <<>>, vals |-> <<>>, val |-> NoneV],  \* 197
    \* test_eval_binary_op: 'a %s c' % lst
    [kind |-> "BinOp", name |-> "Mod", kids |-> <<199, 200>>, vals |-> <<>>, val |-> NoneV],  \* 198
    [kind |-> "Constant", name |-> "", kids |-> <<>>, vals |-> <<>>, val |-> StrV(<<"a", " ", "%", "s", " ", "c">>)],  \* 199
    [kind |-> "Name", name |-> "lst", kids |-> <<>>, vals |-> <<>>, val |-> NoneV],  \* 200
    \* test_eval_binary_op: 'a %s c' % (x,)
    [kind |-> "BinOp", name |-> "Mod", kids |-> <<202, 203>>, vals |-> <<>>, val |-> NoneV],  \* 201
    [kind |-> "Constant", name |-> "", kids |-> <<>>, vals |-> <<>>, val |-> StrV(<<"a", " ", "%", "s", " ", "c">>)],  \* 202
    [kind |-> "Tuple", name |-> "", kids |-> <<204>>, vals |-> <<>>, val |-> NoneV],  \* 203
    [kind |-> "Name", name |-> "x", kids |-> <<>>, vals |-> <<>>, val |-> NoneV],  \* 204
    \* test_eval_binary_op: s % x
    [kind |-> "BinOp", name |-> "Mod", kids |-> <<206, 207>>, vals |-> <<>>, val |-> NoneV],  \* 205
    [kind |-> "Name", name |-> "s", kids |-> <<>>, vals |-> <<>>, val |-> NoneV],  \* 206
    [kind |-> "Name", name |-> "x", kids |-> <<>>, vals |-> <<>>, val |-> NoneV],  \* 207
    \* test_eval_binary_op: x @ z
    [kind |-> "BinOp", name |-> "MatMult", kids |-> <<209, 210>>, vals |-> <<>>, val |-> NoneV],  \* 208
    [kind |-> "Name", name |-> "x", kids |-> <<>>, vals |-> <<>>, val |-> NoneV],  \* 209
    [kind |-> "Name", name |-> "z", kids |-> <<>>, vals |-> <<>>, val |-> NoneV],  \* 210
    \* test_eval_binary_op: x + []
    [kind |-> "BinOp", name |-> "Add", kids |-> <<212, 213>>, vals |-> <<>>, val |-> NoneV],  \* 211
    [kind |-> "Name", name |-> "x", kids |-> <<>>, vals |-> <<>>, val |-> NoneV],  \* 212
    [kind |-> "List", name |-> "", kids |-> <<>>, vals |-> <<>>, val |-> NoneV],  \* 213
    \* test_eval_binary_op: d + x
    [kind |-> "BinOp", name |-> "Add", kids |-> <<215, 216>>, vals |-> <<>>, val |-> NoneV],  \* 214
    [kind |-> "Name", name |-> "d", kids |-> <<>>, vals |-> <<>>, val |-> NoneV],  \* 215
    [kind |-> "Name", name |-> "x", kids |-> <<>>, vals |-> <<>>, val |-> NoneV],  \* 216
    \* test_eval_binary_op: x - b
    [kind |-> "BinOp", name |-> "Sub", kids |-> <<218, 219>>, vals |-> <<>>, val |-> NoneV],  \* 217
    [kind |-> "Name", name |-> "x", kids |-> <<>>, vals |-> <<>>, val |-> NoneV],  \* 218
    [kind |-> "Name", name |-> "b", kids |-> <<>>, vals |-> <<>>, val |-> NoneV],  \* 219
    \* test_eval_binary_op: x * i - x ** i
    [kind |-> "BinOp", name |-> "Sub", kids |-> <<221, 222>>, vals |-> <<>>, val |-> NoneV],  \* 220
    [kind |-> "BinOp", name |-> "Mult", kids |-> <<223, 224>>, vals |-> <<>>, val |-> NoneV],  \* 221
    [kind |-> "BinOp", name |-> "Pow", kids |-> <<225, 226>>, vals |-> <<>>, val |-> NoneV],  \* 222
    [kind |-> "Name", name |-> "x", kids |-> <<>>, vals |-> <<>>, val |-> NoneV],  \* 223
    [kind |-> "Name", name |-> "i", kids |-> <<>>, vals |-> <<>>, val |-> NoneV],  \* 224
    [kind |-> "Name", name |-> "x", kids |-> <<>>, vals |-> <<>>, val |-> NoneV],  \* 225
    [kind |-> "Name", name |-> "i", kids |-> <<>>, vals |-> <<>>, val |-> NoneV],  \* 226
    \* test_eval_binary_op: x / i
    [kind |-> "BinOp", name |-> "Div", kids |-> <<228, 229>>, vals |-> <<>>, val |-> NoneV],  \* 227
    [kind |-> "Name", name |-> "x", kids |-> <<>>, vals |-> <<>>, val |-> NoneV],  \* 228
    [kind |-> "Name", name |-> "i", kids |-> <<>>, vals |-> <<>>, val |-> NoneV],  \* 229
    \* test_eval_binary_op: x & i | z
    [kind |-> "BinOp", name |-> "BitOr", kids |-> <<231, 232>>, vals |-> <<>>, val |-> NoneV],  \* 230
    [kind |-> "BinOp", name |-> "BitAnd", kids |-> <<233, 234>>, vals |-> <<>>, val |-> NoneV],  \* 231
    [kind |-> "Name", name |-> "z", kids |-> <<>>, vals |-> <<>>, val |-> NoneV],  \* 232
    [kind |-> "Name", name |-> "x", kids |-> <<>>, vals |-> <<>>, val |-> NoneV],  \* 233
    [kind |-> "Name", name |-> "i", kids |-> <<>>, vals |-> <<>>, val |-> NoneV],  \* 234
    \* test_eval_binary_op: x << i >> i
    [kind |-> "BinOp", name |-> "RShift", kids |-> <<236, 237>>, vals |-> <<>>, val |-> NoneV],  \* 235
    [kind |-> "BinOp", name |-> "LShift", kids |-> <<238, 239>>, vals |-> <<>>, val |-> NoneV],  \* 236
    [kind |-> "Name", name |-> "i", kids |-> <<>>, vals |-> <<>>, val |-> NoneV],  \* 237
    [kind |-> "Name", name |-> "x", kids |-> <<>>, vals |-> <<>>, val |-> NoneV],  \* 238
    [kind |-> "Name", name |-> "i", kids |-> <<>>, vals |-> <<>>, val |-> NoneV],  \* 239
    \* test_eval_binary_op: lst + lst * i
    [kind |-> "BinOp", name |-> "Add", kids |-> <<241, 242>>, vals |-> <<>>, val |-> NoneV],  \* 240
    [kind |-> "Name", name |-> "lst", kids |-> <<>>, vals |-> <<>>, val |-> NoneV],  \* 241
    [kind |-> "BinOp", name |-> "Mult", kids |-> <<243, 244>>, vals |-> <<>>, val |-> NoneV],  \* 242
    [kind |-> "Name", name |-> "lst", kids |-> <<>>, vals |-> <<>>, val |-> NoneV],  \* 243
    [kind |-> "Name", name |-> "i", kids |-> <<>>, vals |-> <<>>, val |-> NoneV],  \* 244
    \* test_eval_set: {x, z}
    [kind |-> "Set", name |-> "", kids |-> <<246, 247>>, vals |-> <<>>, val |-> NoneV],  \* 245
    [kind |-> "Name", name |-> "x", kids |-> <<>>, vals |-> <<>>, val |-> NoneV],  \* 246
    [kind |-> "Name", name |-> "z", kids |-> <<>>, vals |-> <<>>, val |-> NoneV],  \* 247
    \* test_eval_set: {x, lst}
    [kind |-> "Set", name |-> "", kids |-> <<249, 250>>, vals |-> <<>>, val |-> NoneV],  \* 248
    [kind |-> "Name", name |-> "x", kids |-> <<>>, vals |-> <<>>, val |-> NoneV],  \* 249
    [kind |-> "Name", name |-> "lst", kids |-> <<>>, vals |-> <<>>, val |-> NoneV],  \* 250
    \* test_eval_dict: {(1, x): z}
    [kind |-> "Dict", name |-> "", kids |-> <<252>>, vals |-> <<253>>, val |-> NoneV],  \* 251
    [kind |-> "Tuple", name |-> "", kids |-> <<254, 255>>, vals |-> <<>>, val |-> NoneV],  \* 252
    [kind |-> "Name", name |-> "z", kids |-> <<>>, vals |-> <<>>, val |-> NoneV],  \* 253
    [kind |-> "Constant", name |-> "", kids |-> <<>>, vals |-> <<>>, val |-> IntV(1)],  \* 254
    [kind |-> "Name", name |-> "x", kids |-> <<>>, vals |-> <<>>, val |-> NoneV],  \* 255
    \* test_eval_dict: {(1, b): 1}
    [kind |-> "Dict", name |-> "", kids |-> <<257>>, vals |-> <<258>>, val |-> NoneV],  \* 256
    [kind |-> "Tuple", name |-> "", kids |-> <<259, 260>>, vals |-> <<>>, val |-> NoneV],  \* 257
    [kind |-> "Constant", name |-> "", kids |-> <<>>, vals |-> <<>>, val |-> IntV(1)],  \* 258
    [kind |-> "Constant", name |-> "", kids |-> <<>>, vals |-> <<>>, val |-> IntV(1)],  \* 259
    [kind |-> "Name", name |-> "b", kids |-> <<>>, vals |-> <<>>, val |-> NoneV],  \* 260
    \* test_eval_dict: [lst, b]
    [kind |-> "List", name |-> "", kids |-> <<262, 263>>, vals |-> <<>>, val |-> NoneV],  \* 261
    [kind |-> "Name", name |-> "lst", kids |-> <<>>, vals |-> <<>>, val |-> NoneV],  \* 262
    [kind |-> "Name", name |-> "b", kids |-> <<>>, vals |-> <<>>, val |-> NoneV],  \* 263
    \* test_eval_set: {lst[::z]}
    [kind |-> "Set", name |-> "", kids |-> <<265>>, vals |-> <<>>, val |-> NoneV],  \* 264
    [kind |-> "Subscript", name |-> "", kids |-> <<266, 267>>, vals |-> <<>>, val |-> NoneV],  \* 265
    [kind |-> "Name", name |-> "lst", kids |-> <<>>, vals |-> <<>>, val |-> NoneV],  \* 266
    [kind |-> "Slice", name |-> "", kids |-> <<0, 0, 268>>, vals |-> <<>>, val |-> NoneV],  \* 267
    [kind |-> "Name", name |-> "z", kids |-> <<>>, vals |-> <<>>, val |-> NoneV]   \* 268
    >>

\* the root of each tree
Trees == <<1, 6, 9, 14, 18, 24, 30, 37, 40, 43, 47, 50, 53, 56, 59, 65, 70, 75, 77, 79, 81, 83, 85, 90, 92, 97, 102, 105, 108, 111, 114, 119, 121, 123, 125, 127, 130, 133, 136, 139, 144, 149, 154, 156, 159, 168, 173, 178, 182, 188, 192, 195, 198, 201, 205, 208, 211, 214, 217, 220, 227, 230, 235, 240, 245, 248, 251, 256, 261, 264>>

\* node.ctx of the nodes that have one: the targets of the comprehension and of the
\* assignment are stored, the targets of del are deleted, every other node is loaded
ctx(node) ==
    IF node \in {152, 169} THEN "Store" ELSE IF node \in {174, 175} THEN "Del" ELSE "Load"

\* the subclasses of ast.expr
ExprKinds ==
    {"Constant", "Name", "Attribute", "Subscript", "Slice", "List", "Tuple", "Set", "Dict",
     "UnaryOp", "BinOp", "BoolOp", "Compare", "Call", "Starred", "ListComp"}

\* isinstance(node, ast.expr); 0 is an object that is no node at all (None, a str)
IsExpr(node) == node \in DOMAIN Nodes /\ Nodes[node].kind \in ExprKinds

\* the child nodes of a node, as ast.iter_child_nodes yields them
Children(node) ==
    SelectSeq(Nodes[node].kids \o Nodes[node].vals, LAMBDA k : k # 0)

\* ast.walk(root): breadth first
RECURSIVE WalkFrom(_)
WalkFrom(todo) ==
    IF todo = <<>> THEN <<>>
    ELSE <<Head(todo)>> \o WalkFrom(Tail(todo) \o Children(Head(todo)))

walk(r) == WalkFrom(<<r>>)

TreeNodes(r) == {walk(r)[i] : i \in DOMAIN walk(r)}

(***************************************************************************)
(* ast.literal_eval, which _handle and is_expression_interesting call      *)
(***************************************************************************)
\* _convert_num: an int constant (bool is not a number here)
_convert_num(node) ==
    IF node # 0 /\ Nodes[node].kind = "Constant" /\ TypeOf(Nodes[node].val) = "int"
    THEN Ok(Nodes[node].val)
    ELSE Raise("ValueError")

_convert_signed_num(node) ==
    IF node # 0 /\ Nodes[node].kind = "UnaryOp" /\ Nodes[node].name \in {"UAdd", "USub"}
    THEN LET operand == _convert_num(Nodes[node].kids[1])
         IN  IF operand.k # "ok" THEN operand
             ELSE IF Nodes[node].name = "UAdd" THEN operand
             ELSE Ok(IntV(0 - operand.v[2]))
    ELSE _convert_num(node)

RECURSIVE _convert(_), ConvertSeq(_, _, _), ConvertSet(_, _, _), ConvertDict(_, _, _, _)
\* tuple(map(_convert, elts)) / list(map(_convert, elts))
ConvertSeq(elts, i, acc) ==
    IF i > Len(elts) THEN Ok(TupleV(acc))
    ELSE LET e == _convert(elts[i])
         IN  IF e.k # "ok" THEN e ELSE ConvertSeq(elts, i + 1, Append(acc, e.v))

\* set(map(_convert, elts)): each element is converted, then hashed
ConvertSet(elts, i, acc) ==
    IF i > Len(elts) THEN Ok(SetV(acc))
    ELSE LET e == _convert(elts[i])
         IN  IF e.k # "ok" THEN e
             ELSE IF ~Hashable(e.v) THEN Raise("TypeError")
             ELSE ConvertSet(elts, i + 1, SetAdd(acc, e.v))

\* dict(zip(map(_convert, keys), map(_convert, values)))
ConvertDict(keys, values, i, acc) ==
    IF i > Len(keys) THEN Ok(DictV(acc, 0))
    ELSE LET key == _convert(keys[i])
             value == _convert(values[i])
         IN  IF key.k # "ok" THEN key
             ELSE IF value.k # "ok" THEN value
             ELSE IF ~Hashable(key.v) THEN Raise("TypeError")
             ELSE ConvertDict(keys, values, i + 1, DictSet(acc, key.v, value.v))

_convert(node) ==
    IF node = 0 THEN Raise("ValueError")
    ELSE LET n == Nodes[node]
         IN  CASE n.kind = "Constant" -> Ok(n.val)
               [] n.kind = "Tuple" -> ConvertSeq(n.kids, 1, <<>>)
               [] n.kind = "List" ->
                    LET elts == ConvertSeq(n.kids, 1, <<>>)
                    IN  IF elts.k = "ok" THEN Ok(ListV(elts.v[2])) ELSE elts
               [] n.kind = "Set" -> ConvertSet(n.kids, 1, {})
               [] /\ n.kind = "Call"
                  /\ Nodes[n.kids[1]].kind = "Name"
                  /\ Nodes[n.kids[1]].name = "set"
                  /\ Len(n.kids) = 1
                  /\ n.vals = <<>> -> Ok(SetV({}))
               [] n.kind = "Dict" ->
                    IF Len(n.kids) # Len(n.vals) THEN Raise("ValueError")
                    ELSE ConvertDict(n.kids, n.vals, 1, <<>>)
               [] OTHER -> _convert_signed_num(node)

literal_eval(node) == _convert(node)

(***************************************************************************)
(* core.py: the Evaluator.  A call takes the session state st = [cache,    *)
(* handled, log] and returns the outcome with the state it leaves behind.  *)
(* log is a ghost: the calls of __getitem__ that returned during the       *)
(* operation, each with its outcome and whether the memo table answered.   *)
(***************************************************************************)
Res(out, st) ==
    [out |-> out, names |-> st.names, cache |-> st.cache, handled |-> st.handled, log |-> st.log]

Logged(r, node, hit) == [r EXCEPT !.log = Append(@, [node |-> node, out |-> r.out, hit |-> hit])]

\* self._cache[node] = v
Put(c, node, v) == [m \in DOMAIN c \cup {node} |-> IF m = node THEN v ELSE c[m]]

\* lines 52-57 of __getitem__: the answer for a node that has an entry in self._cache
Lookup(node, st) ==
    Logged(Res(IF st.cache[node] = CannotEval THEN Raise("CannotEval") ELSE Ok(st.cache[node]), st),
           node, TRUE)

\* lines 59-64 of __getitem__ with an except clause that re-raises without recording
RecordForgetFailure(node, r) ==
    Logged(CASE r.out.k = "ok" -> [r EXCEPT !.cache = Put(r.cache, node, r.out.v)]
             [] OTHER -> r,
           node, FALSE)

\* lines 59-64 of __getitem__ with a record that also binds a name that has no value to None
RecordBindsName(node, r) ==
    Logged(CASE r.out.k = "ok" -> [r EXCEPT !.cache = Put(r.cache, node, r.out.v)]
             [] r.out.k = "CannotEval" ->
                    [r EXCEPT !.cache = Put(r.cache, node, CannotEval),
                              !.names = IF Nodes[node].kind = "Name"
                                        THEN (Nodes[node].name :> NoneV) @@ @
                                        ELSE @]
             [] OTHER -> r,
           node, FALSE)

\* lines 59-64 of __getitem__ with a failure that is also written over the entries of
\* the node's children
RecordPoisonsOperands(node, r) ==
    Logged(CASE r.out.k = "ok" -> [r EXCEPT !.cache = Put(r.cache, node, r.out.v)]
             [] r.out.k = "CannotEval" ->
                    [r EXCEPT !.cache =
                        [m \in DOMAIN r.cache \cup {node} |->
                            IF m = node \/ \E j \in DOMAIN Nodes[node].kids : Nodes[node].kids[j] = m
                            THEN CannotEval ELSE r.cache[m]]]
             [] OTHER -> r,
           node, FALSE)

\* lines 59-64 of __getitem__: the outcome r of self._handle(node) is recorded, a value
\* as itself and a CannotEval as the class CannotEval; any other exception is not recorded
Record(node, r) ==
    Logged(CASE r.out.k = "ok" -> [r EXCEPT !.cache = Put(r.cache, node, r.out.v)]
             [] r.out.k = "CannotEval" -> [r EXCEPT !.cache = Put(r.cache, node, CannotEval)]
             [] OTHER -> r,
           node, FALSE)

\* the value-level part of _handle_subscript: the type checks and value[index]
\* the subscript checks without the one on the keys the dict already has
SubscriptTrustKeys(value, index) ==
    LET item == IF TypeOf(value) = "dict" THEN DictGet(value, index) ELSE SeqGet(value, index)
        checked ==
            IF is_any(TypeOf(value), {"list", "tuple", "str", "bytes", "bytearray"})
            THEN IF TypeOf(index) = "slice"
                 THEN \A j \in 2..4 : of_type(index[j], {"int", "bool", "NoneType"}).k = "ok"
                 ELSE of_type(index, {"int", "bool"}).k = "ok"
            ELSE /\ of_type(value, {"dict"}).k = "ok"
                 /\ safe_hash_key(index)
                 /\ DictLen(value) < 10000
    IN  IF ~checked THEN Raise("CannotEval")
        ELSE IF item.k \in {"KeyError", "IndexError"} THEN Raise("CannotEval")
        ELSE item

Subscript(value, index) ==
    LET item == IF TypeOf(value) = "dict" THEN DictGet(value, index) ELSE SeqGet(value, index)
        checked ==
            IF is_any(TypeOf(value), {"list", "tuple", "str", "bytes", "bytearray"})
            THEN IF TypeOf(index) = "slice"
                 THEN \A j \in 2..4 : of_type(index[j], {"int", "bool", "NoneType"}).k = "ok"
                 ELSE of_type(index, {"int", "bool"}).k = "ok"
            ELSE /\ of_type(value, {"dict"}).k = "ok"
                 /\ safe_hash_key(index)
                 /\ DictLen(value) < 10000
                 /\ \A j \in DOMAIN DictKeys(value) : safe_hash_key(DictKeys(value)[j])
    IN  IF ~checked THEN Raise("CannotEval")
        ELSE IF item.k \in {"KeyError", "IndexError"} THEN Raise("CannotEval")
        ELSE item

allowed_types_boolop ==
    {"int", "float", "complex", "bool", "str", "bytes", "range", "list", "tuple",
     "dict", "set", "frozenset", "NoneType"}

allowed_types_binop == {"int", "float", "complex", "bool", "str", "bytes", "range", "list", "tuple"}

allowed_types_unary ==
    {"int", "float", "complex", "bool", "str", "list", "dict", "set", "tuple",
     "frozenset", "bytes", "range", "NoneType"}

binop_operators ==
    {"Add", "Sub", "Mult", "Div", "FloorDiv", "Mod", "Pow", "LShift", "RShift",
     "BitOr", "BitXor", "BitAnd"}

\* _handle_binop without the check on the right operand of a format %
BinOpValueFormatAny(op, left, right) ==
    IF PyBinary(op, left, right).k = "ok" THEN PyBinary(op, left, right)
    ELSE Raise("CannotEval")

\* the value-level part of _handle_binop once both operands are known
BinOpValue(op, left, right) ==
    IF /\ TypeOf(left) \in {"str", "bytes"}
       /\ op = "Mod"
       /\ TypeOf(right) \notin {"int", "float", "complex", "bool", "str", "bytes", "range"}
    THEN Raise("CannotEval")
    ELSE IF PyBinary(op, left, right).k = "ok" THEN PyBinary(op, left, right)
    ELSE Raise("CannotEval")

RECURSIVE __getitem__(_, _), _handle(_, _), _handle_subscript(_, _), _handle_container(_, _),
          _handle_unary(_, _), _handle_binop(_, _), _handle_boolop(_, _),
          EvalAll(_, _, _, _), SliceParts(_, _, _, _), DictItems(_, _, _, _, _), BoolChain(_, _, _, _, _)

\* __getitem__ that never looks the node up in self._cache
GetItemNoLookup(node, st) ==
    IF ~IsExpr(node) THEN Logged(Res(Raise("TypeError"), st), node, FALSE)
    ELSE Record(node, _handle(node, [st EXCEPT !.handled[node] = @ + 1]))

\* __getitem__ that reports an object that is no ast.expr as one more failure to evaluate
GetItemSwallow(node, st) ==
    IF ~IsExpr(node)
    THEN Logged([Res(Raise("CannotEval"), st) EXCEPT !.cache = Put(st.cache, node, CannotEval)],
                node, FALSE)
    ELSE IF node \in DOMAIN st.cache THEN Lookup(node, st)
    ELSE Record(node, _handle(node, [st EXCEPT !.handled[node] = @ + 1]))

__getitem__(node, st) ==
    IF ~IsExpr(node) THEN Logged(Res(Raise("TypeError"), st), node, FALSE)
    ELSE IF node \in DOMAIN st.cache THEN Lookup(node, st)
    ELSE Record(node, _handle(node, [st EXCEPT !.handled[node] = @ + 1]))

_handle(node, st) ==
    LET n == Nodes[node]
        literal == literal_eval(node)
    IN  IF literal.k = "ok" THEN Res(literal, st)
        ELSE CASE n.kind = "Name" ->
                    Res(IF n.name \in DOMAIN st.names THEN Ok(st.names[n.name]) ELSE Raise("CannotEval"), st)
               [] n.kind = "Attribute" ->
                    LET value == __getitem__(n.kids[1], st)
                    IN  IF value.out.k # "ok" THEN value
                        ELSE Res(getattr_static(value.out.v, n.name), value)
               [] n.kind = "Subscript" -> _handle_subscript(node, st)
               [] n.kind \in {"List", "Tuple", "Set", "Dict"} -> _handle_container(node, st)
               [] n.kind = "UnaryOp" -> _handle_unary(node, st)
               [] n.kind = "BinOp" -> _handle_binop(node, st)
               [] n.kind = "BoolOp" -> _handle_boolop(node, st)
               [] OTHER -> Res(Raise("CannotEval"), st)

\* [self[elt] for elt in elts]: the values as a tuple, or the first failure
EvalAll(elts, i, st, acc) ==
    IF i > Len(elts) THEN Res(Ok(TupleV(acc)), st)
    ELSE LET r == __getitem__(elts[i], st)
         IN  IF r.out.k # "ok" THEN r ELSE EvalAll(elts, i + 1, r, Append(acc, r.out.v))

\* [None if p is None else of_type(self[p], int, bool) for p in [lower, upper, step]]
SliceParts(parts, i, st, acc) ==
    IF i > Len(parts) THEN Res(Ok(SliceV(acc[1], acc[2], acc[3])), st)
    ELSE IF parts[i] = 0 THEN SliceParts(parts, i + 1, st, Append(acc, NoneV))
    ELSE LET r == __getitem__(parts[i], st)
         IN  IF r.out.k # "ok" THEN r
             ELSE IF of_type(r.out.v, {"int", "bool"}).k # "ok" THEN Res(Raise("CannotEval"), r)
             ELSE SliceParts(parts, i + 1, r, Append(acc, r.out.v))

_handle_subscript(node, st) ==
    LET n == Nodes[node]
        value == __getitem__(n.kids[1], st)
        slice == Nodes[n.kids[2]]
        index ==
            CASE slice.kind = "Slice" -> SliceParts(slice.kids, 1, value, <<>>)
              [] slice.kind = "ExtSlice" -> Res(Raise("CannotEval"), value)
              [] slice.kind = "Index" -> __getitem__(slice.kids[1], value)
              [] OTHER -> __getitem__(n.kids[2], value)
    IN  IF value.out.k # "ok" THEN value
        ELSE IF index.out.k # "ok" THEN index
        ELSE Res(Subscript(value.out.v, index.out.v), index)

\* {elt: self[val] for elt, val in zip(elts, node.values)}
DictItems(elts, values, i, st, acc) ==
    IF i > Len(elts) \/ i > Len(values) THEN Res(Ok(DictV(acc, 0)), st)
    ELSE LET r == __getitem__(values[i], st)
         IN  IF r.out.k # "ok" THEN r
             ELSE DictItems(elts, values, i + 1, r, DictSet(acc, elts[i], r.out.v))

\* set(elts)
RECURSIVE SetOf(_, _)
SetOf(elts, i) == IF i = 0 THEN {} ELSE SetAdd(SetOf(elts, i - 1), elts[i])

_handle_container(node, st) ==
    LET n == Nodes[node]
        elts == EvalAll(n.kids, 1, st, <<>>)
    IN  IF elts.out.k # "ok" THEN elts
        ELSE CASE n.kind = "List" -> Res(Ok(ListV(elts.out.v[2])), elts)
               [] n.kind = "Tuple" -> Res(Ok(TupleV(elts.out.v[2])), elts)
               [] OTHER ->
                    IF ~\A i \in DOMAIN elts.out.v[2] : safe_hash_key(elts.out.v[2][i])
                    THEN Res(Raise("CannotEval"), elts)
                    ELSE IF n.kind = "Set"
                    THEN Res(Ok(SetV(SetOf(elts.out.v[2], Len(elts.out.v[2])))), elts)
                    ELSE DictItems(elts.out.v[2], n.vals, 1, elts, <<>>)

_handle_unary(node, st) ==
    LET n == Nodes[node]
        operand == __getitem__(n.kids[1], st)
    IN  IF operand.out.k # "ok" THEN operand
        ELSE IF of_type(operand.out.v, allowed_types_unary).k # "ok" THEN Res(Raise("CannotEval"), operand)
        ELSE IF PyUnary(n.name, operand.out.v).k # "ok" THEN Res(Raise("CannotEval"), operand)
        ELSE Res(PyUnary(n.name, operand.out.v), operand)

_handle_binop(node, st) ==
    LET n == Nodes[node]
        left == __getitem__(n.kids[1], st)
        right == __getitem__(n.kids[2], left)
    IN  IF n.name \notin binop_operators THEN Res(Raise("CannotEval"), st)
        ELSE IF left.out.k # "ok" THEN left
        ELSE IF of_type(left.out.v, allowed_types_binop).k # "ok" THEN Res(Raise("CannotEval"), left)
        ELSE IF right.out.k # "ok" THEN right
        ELSE IF of_type(right.out.v, allowed_types_binop).k # "ok" THEN Res(Raise("CannotEval"), right)
        ELSE Res(BinOpValue(n.name, left.out.v, right.out.v), right)

\* the loop of _handle_boolop over node.values[1:], with `left` the value so far
BoolChain(op, values, i, left, st) ==
    IF i > Len(values) THEN Res(Ok(left), st)
    ELSE IF (op = "Or" /\ Truth(left)) \/ (op = "And" /\ ~Truth(left))
    THEN BoolChain(op, values, i + 1, left, st)
    ELSE LET r == __getitem__(values[i], st)
         IN  IF r.out.k # "ok" THEN r
             ELSE IF of_type(r.out.v, allowed_types_boolop).k # "ok" THEN Res(Raise("CannotEval"), r)
             ELSE BoolChain(op, values, i + 1, r.out.v, r)

_handle_boolop(node, st) ==
    LET n == Nodes[node]
        left == __getitem__(n.kids[1], st)
    IN  IF left.out.k # "ok" THEN left
        ELSE IF of_type(left.out.v, allowed_types_boolop).k # "ok" THEN Res(Raise("CannotEval"), left)
        ELSE BoolChain(n.name, n.kids, 2, left.out.v, left)

\* find_expressions(root): the pairs it yields, or the exception that ends the walk
RECURSIVE FindFrom(_, _, _, _), Yield(_, _, _, _)
FindFrom(nodes, i, st, acc) ==
    IF i > Len(nodes) THEN Res(Ok(ListV(acc)), st)
    ELSE IF ~IsExpr(nodes[i]) THEN FindFrom(nodes, i + 1, st, acc)
    ELSE Yield(nodes, i, __getitem__(nodes[i], st), acc)

\* lines 272-276 of find_expressions: the pair is yielded, or the node skipped
Yield(nodes, i, r, acc) ==
    CASE r.out.k = "CannotEval" -> FindFrom(nodes, i + 1, r, acc)
      [] r.out.k = "ok" -> FindFrom(nodes, i + 1, r, Append(acc, TupleV(<<IntV(nodes[i]), r.out.v>>)))
      [] OTHER -> r

find_expressions(r, st) == FindFrom(walk(r), 1, st, <<>>)

(***************************************************************************)
(* What running the expression itself gives: eval(compile(node)) in the    *)
(* names of the session, which check_eval compares every result with.      *)
(***************************************************************************)
\* bool(v) of any value of the fixtures
RealTruth(v) ==
    IF v[1] \in {"bool", "int", "str", "list", "tuple", "set", "dict", "NoneType"} THEN Truth(v) ELSE TRUE

\* value[index] as the language runs it
RealSubscript(value, index) ==
    CASE value[1] \in {"list", "tuple", "str"} ->
            IF IsNum(index) \/ (index[1] = "slice" /\ \A j \in 2..4 : index[j] = NoneV \/ IsNum(index[j]))
            THEN SeqGet(value, index)
            ELSE Raise("TypeError")
      [] value[1] = "dict" -> IF Hashable(index) /\ index[1] # "slice" THEN DictGet(value, index) ELSE Raise("TypeError")
      [] OTHER -> Raise("TypeError")

\* int(s, base) of a str of digits; DigitOf is the value of a digit character, or 36 for
\* any other character
RECURSIVE ParseInt(_, _, _, _)
ParseInt(s, base, i, acc) ==
    LET digits == <<"0", "1", "2", "3", "4", "5", "6", "7", "8", "9">>
        DigitOf(c) ==
            IF \E j \in DOMAIN digits : digits[j] = c
            THEN (CHOOSE j \in DOMAIN digits : digits[j] = c) - 1
            ELSE 36
    IN  IF s = <<>> \/ base < 2 \/ base > 36 THEN Raise("ValueError")
        ELSE IF i > Len(s) THEN Ok(IntV(acc))
        ELSE IF DigitOf(s[i]) >= base THEN Raise("ValueError")
        ELSE ParseInt(s, base, i + 1, acc * base + DigitOf(s[i]))

\* int(*args, **kw)
IntNew(args, kw) ==
    CASE args = <<>> /\ kw = <<>> -> Ok(IntV(0))
      [] Len(args) = 1 /\ kw = <<>> ->
            IF IsNum(args[1]) THEN Ok(IntV(Num(args[1])))
            ELSE IF args[1][1] = "str" THEN ParseInt(args[1][2], 10, 1, 0)
            ELSE Raise("TypeError")
      [] Len(args) = 1 /\ Len(kw) = 1 /\ kw[1][1] = "base" ->
            IF args[1][1] # "str" \/ ~IsNum(kw[1][2]) THEN Raise("TypeError")
            ELSE ParseInt(args[1][2], Num(kw[1][2]), 1, 0)
      [] OTHER -> Raise("TypeError")

\* f(*args, **kw) for the callables of the fixtures; kw lists <<name, value>>
CallValue(f, args, kw) ==
    CASE f = BuiltinMethod("len", Module("builtins")) ->
            IF kw # <<>> \/ Len(args) # 1 THEN Raise("TypeError")
            ELSE CASE args[1][1] \in {"list", "tuple", "str"} -> Ok(IntV(Len(args[1][2])))
                   [] args[1][1] = "set" -> Ok(IntV(Cardinality(args[1][2])))
                   [] args[1][1] = "dict" -> Ok(IntV(DictLen(args[1])))
                   [] OTHER -> Raise("TypeError")
      [] f = BuiltinMethod("abs", Module("builtins")) ->
            IF kw # <<>> \/ Len(args) # 1 \/ ~IsNum(args[1]) THEN Raise("TypeError")
            ELSE Ok(IntV(Abs(Num(args[1]))))
      [] f = BuiltinMethod("print", Module("builtins")) -> Ok(NoneV)
      [] f = Class("int") -> IntNew(args, kw)
      [] OTHER -> Raise("TypeError")

RECURSIVE Execute(_), ExecuteAll(_, _, _), ExecuteDict(_, _, _, _), ExecuteBool(_, _, _, _),
          ExecuteKeywords(_, _, _)
\* the values of a list of expressions, a starred one unpacked in place
ExecuteAll(elts, i, acc) ==
    IF i > Len(elts) THEN Ok(TupleV(acc))
    ELSE IF elts[i] = 0 THEN ExecuteAll(elts, i + 1, Append(acc, NoneV))
    ELSE IF Nodes[elts[i]].kind = "Starred"
    THEN LET e == Execute(Nodes[elts[i]].kids[1])
         IN  IF e.k # "ok" THEN e
             ELSE IF e.v[1] \in {"list", "tuple"} THEN ExecuteAll(elts, i + 1, acc \o e.v[2])
             ELSE IF e.v[1] = "str"
             THEN ExecuteAll(elts, i + 1, acc \o [j \in DOMAIN e.v[2] |-> StrV(<<e.v[2][j]>>)])
             ELSE Raise("TypeError")
    ELSE LET e == Execute(elts[i])
         IN  IF e.k # "ok" THEN e ELSE ExecuteAll(elts, i + 1, Append(acc, e.v))

\* a dict display; a ** entry (no key node) merges the items of its value
RECURSIVE Merge(_, _, _)
Merge(acc, items, i) ==
    IF i > Len(items) THEN acc ELSE Merge(DictSet(acc, items[i][1], items[i][2]), items, i + 1)

ExecuteDict(keys, values, i, acc) ==
    IF i > Len(keys) THEN Ok(DictV(acc, 0))
    ELSE IF keys[i] = 0
    THEN LET value == Execute(values[i])
         IN  IF value.k # "ok" THEN value
             ELSE IF value.v[1] # "dict" \/ value.v[3] # 0 THEN Raise("TypeError")
             ELSE ExecuteDict(keys, values, i + 1, Merge(acc, value.v[2], 1))
    ELSE LET key == Execute(keys[i])
             value == Execute(values[i])
         IN  IF key.k # "ok" THEN key
             ELSE IF value.k # "ok" THEN value
             ELSE IF ~Hashable(key.v) THEN Raise("TypeError")
             ELSE ExecuteDict(keys, values, i + 1, DictSet(acc, key.v, value.v))

ExecuteBool(op, values, i, left) ==
    IF i > Len(values) THEN Ok(left)
    ELSE IF (op = "Or" /\ RealTruth(left)) \/ (op = "And" /\ ~RealTruth(left)) THEN Ok(left)
    ELSE LET e == Execute(values[i])
         IN  IF e.k # "ok" THEN e ELSE ExecuteBool(op, values, i + 1, e.v)

\* the keyword arguments of a call as <<name, value>> pairs
ExecuteKeywords(kws, i, acc) ==
    IF i > Len(kws) THEN Ok(TupleV(acc))
    ELSE LET e == Execute(Nodes[kws[i]].kids[1])
         IN  IF e.k # "ok" THEN e
             ELSE ExecuteKeywords(kws, i + 1, Append(acc, <<Nodes[kws[i]].name, e.v>>))

Execute(node) ==
    LET n == Nodes[node]
        kids == ExecuteAll(n.kids, 1, <<>>)
    IN  CASE n.kind = "Constant" -> Ok(n.val)
          [] n.kind = "Name" -> IF n.name \in DOMAIN names THEN Ok(names[n.name]) ELSE Raise("NameError")
          [] n.kind = "BoolOp" ->
                LET first == Execute(n.kids[1])
                IN  IF first.k # "ok" THEN first ELSE ExecuteBool(n.name, n.kids, 2, first.v)
          [] n.kind = "Dict" -> ExecuteDict(n.kids, n.vals, 1, <<>>)
          [] n.kind = "Call" ->
                LET keywords == ExecuteKeywords(n.vals, 1, <<>>)
                IN  IF kids.k # "ok" THEN kids
                    ELSE IF keywords.k # "ok" THEN keywords
                    ELSE CallValue(kids.v[2][1], Tail(kids.v[2]), keywords.v[2])
          \* the comprehensions of the tests map each element of a list to itself
          [] /\ n.kind = "ListComp"
             /\ Len(n.vals) = 1
             /\ Nodes[n.kids[1]].kind = "Name"
             /\ Nodes[Nodes[n.vals[1]].kids[1]].kind = "Name"
             /\ Nodes[Nodes[n.vals[1]].kids[1]].name = Nodes[n.kids[1]].name ->
                LET iter == Execute(Nodes[n.vals[1]].kids[2])
                IN  IF iter.k # "ok" THEN iter
                    ELSE IF iter.v[1] \in {"list", "tuple"} THEN Ok(ListV(iter.v[2]))
                    ELSE Raise("TypeError")
          [] n.kind \in {"Attribute", "Subscript", "Slice", "List", "Tuple", "Set", "UnaryOp", "BinOp"} ->
                IF kids.k # "ok" THEN kids
                ELSE (CASE n.kind = "Attribute" -> GetAttr(kids.v[2][1], n.name)
                       [] n.kind = "Subscript" -> RealSubscript(kids.v[2][1], kids.v[2][2])
                       [] n.kind = "Slice" -> Ok(SliceV(kids.v[2][1], kids.v[2][2], kids.v[2][3]))
                       [] n.kind = "List" -> Ok(ListV(kids.v[2]))
                       [] n.kind = "Tuple" -> kids
                       [] n.kind = "Set" ->
                            IF \A j \in DOMAIN kids.v[2] : Hashable(kids.v[2][j])
                            THEN Ok(SetV(SetOf(kids.v[2], Len(kids.v[2]))))
                            ELSE Raise("TypeError")
                       [] n.kind = "UnaryOp" -> PyUnary(n.name, kids.v[2][1])
                       [] n.kind = "BinOp" -> PyBinary(n.name, kids.v[2][1], kids.v[2][2]))
          \* a starred expression on its own
          [] n.kind = "Starred" -> Raise("SyntaxError")
          \* a node that is no expression
          [] OTHER -> Raise("TypeError")

(***************************************************************************)
(* The name environments of the sessions                                   *)
(***************************************************************************)
\* the builtins module: the built-in scope of every frame of the tests
builtins ==
       ("len" :> BuiltinMethod("len", Module("builtins")))
    @@ ("abs" :> BuiltinMethod("abs", Module("builtins")))
    @@ ("print" :> BuiltinMethod("print", Module("builtins")))
    @@ ("int" :> Class("int"))
    @@ ("help" :> Obj("help"))

\* the locals of the tests
Locals0 ==
       ("x" :> IntV(3))
    @@ ("c" :> CannotEval)
    @@ ("lst" :> ListV(<<IntV(12), IntV(34), IntV(56)>>))
    @@ ("i" :> IntV(1))
    @@ ("z" :> IntV(0))
    @@ ("s" :> StrV(<<>>))
    @@ ("d" :> DictV(<< <<IntV(1), IntV(2)>> >>, 0))
    @@ ("t" :> DictV(<< <<TupleV(<<IntV(1), IntV(3)>>), IntV(2)>> >>, 0))
    @@ ("big" :> DictV(<< <<IntV(1), IntV(2)>> >>, 9998))
    @@ ("huge" :> DictV(<< <<IntV(1), IntV(2)>> >>, 9999))
    @@ ("b" :> Obj("b"))
    @@ ("foo" :> Obj("foo"))
    @@ ("fooSet" :> Obj("fooSet"))
    @@ ("fooDel" :> Obj("fooDel"))
    @@ ("dictProp" :> Obj("dictProp"))
    @@ ("slotted" :> Obj("slotted"))
    @@ ("slottedDel" :> Obj("slottedDel"))
    @@ ("attrs" :> Obj("attrs"))
    @@ ("Slotted" :> Class("Slotted"))
    @@ ("MetaThing" :> Class("MetaThing"))
    @@ ("Attrs" :> Class("Attrs"))
    @@ ("size" :> BuiltinMethod("len", Module("builtins")))

\* ChainMap(f_locals, f_globals, f_builtins) of from_frame
Names0 == Locals0 @@ builtins

\* the same after d[BadHash()] = 3
Names1 ==
    [Names0 EXCEPT !["d"] = DictV(<< <<IntV(1), IntV(2)>>, <<Obj("b"), IntV(3)>> >>, 0)]

\* test_group_expressions: x = (1, 2), and a local that shadows a built-in
Names2 ==
    ("x" :> TupleV(<<IntV(1), IntV(2)>>)) @@ ("help" :> IntV(7)) @@ builtins

Envs == <<Names0, Names1, Names2>>

(***************************************************************************)
(* The interest filter and the grouping (core.py and utils.py)              *)
(***************************************************************************)
\* value.__name__ of a value whose type is one of safe_name_types, a str kept whole
__name__(value) ==
    LET FunctionNames ==
               ("method" :> "method")
            @@ ("lambda" :> "<lambda>")
            @@ ("descriptor.__get__" :> "__get__")
            @@ ("CannotEval.__repr__" :> "__repr__")
            @@ ("BadHash.__hash__" :> "__hash__")
            @@ ("Attrs.prop" :> "prop")
    IN  CASE value[1] = "function" -> <<"str", FunctionNames[value[2]]>>
          [] value[1] = "method" -> <<"str", FunctionNames[value[2][2]]>>
          [] OTHER -> <<"str", value[2]>>

\* the types of safe_name_samples
safe_name_types ==
    {"builtin_function_or_method", "method_descriptor", "wrapper_descriptor", "method-wrapper",
     "classmethod_descriptor", "function", "method", "module", "type", "EnumMeta"}

eq_checking_types(a, b) == a[1] = b[1] /\ a = b

ast_name(node) ==
    IF Nodes[node].kind \in {"Name", "Attribute"} THEN <<"str", Nodes[node].name>> ELSE NoneV

\* no value of the fixtures is an object of the typing module
safe_name(value) ==
    IF is_any(TypeOf(value), safe_name_types) THEN __name__(value) ELSE NoneV

has_ast_name(value, node) ==
    IF safe_name(value)[1] # "str" THEN FALSE
    ELSE eq_checking_types(ast_name(node), safe_name(value))

\* is_expression_interesting without the test for built-ins under their usual name
InterestingIgnoringBuiltins(node, value) ==
    IF literal_eval(node).k = "ok" THEN Ok(BoolV(FALSE))
    ELSE IF literal_eval(node).k # "ValueError" THEN literal_eval(node)
    ELSE Ok(BoolV(~has_ast_name(value, node)))

\* the outcome of is_expression_interesting(node, value): a bool, or the exception of
\* ast.literal_eval that suppress(ValueError) lets through
is_expression_interesting(node, value) ==
    IF literal_eval(node).k = "ok" THEN Ok(BoolV(FALSE))
    ELSE IF literal_eval(node).k # "ValueError" THEN literal_eval(node)
    ELSE IF has_ast_name(value, node) THEN Ok(BoolV(FALSE))
    ELSE IF /\ Nodes[node].kind = "Name"
            /\ Nodes[node].name \in DOMAIN builtins
            /\ builtins[Nodes[node].name] = value
    THEN Ok(BoolV(FALSE))
    ELSE Ok(BoolV(TRUE))

\* a copy that keeps ctx: the type of the node and all its fields
RECURSIVE CopyWithContext(_)
CopyWithContext(x) ==
    IF x = 0 THEN NoneV
    ELSE <<Nodes[x].kind, Nodes[x].name, ctx(x),
           [j \in DOMAIN Nodes[x].kids |-> CopyWithContext(Nodes[x].kids[j])],
           [j \in DOMAIN Nodes[x].vals |-> CopyWithContext(Nodes[x].vals[j])],
           Nodes[x].val>>

\* ast.dump(copy_ast_without_context(x)): the type of the node and its fields but ctx,
\* each child copied the same way; positions are attributes and no part of the dump
RECURSIVE copy_ast_without_context(_)
copy_ast_without_context(x) ==
    IF x = 0 THEN NoneV
    ELSE <<Nodes[x].kind, Nodes[x].name,
           [j \in DOMAIN Nodes[x].kids |-> copy_ast_without_context(Nodes[x].kids[j])],
           [j \in DOMAIN Nodes[x].vals |-> copy_ast_without_context(Nodes[x].vals[j])],
           Nodes[x].val>>

\* result.setdefault(dump, ([], value))[0].append(node); result lists the entries of
\* the dict in insertion order
setdefault_append(result, dump, node, value) ==
    IF \E g \in DOMAIN result : result[g].dump = dump
    THEN [g \in DOMAIN result |->
             IF result[g].dump = dump
             THEN [result[g] EXCEPT !.nodes = Append(@, IntV(node))]
             ELSE result[g]]
    ELSE Append(result, [dump |-> dump, nodes |-> <<IntV(node)>>, value |-> value])

\* the loop of group_expressions over the pairs from the i-th on
RECURSIVE GroupFrom(_, _, _)
GroupFrom(expressions, i, result) ==
    IF i > Len(expressions) THEN result
    ELSE GroupFrom(expressions, i + 1,
             setdefault_append(result, copy_ast_without_context(expressions[i][2][1][2]),
                               expressions[i][2][1][2], expressions[i][2][2]))

\* the loop, then list(result.values())
group_expressions(expressions) ==
    ListV([g \in DOMAIN GroupFrom(expressions, 1, <<>>) |->
              TupleV(<<ListV(GroupFrom(expressions, 1, <<>>)[g].nodes),
                       GroupFrom(expressions, 1, <<>>)[g].value>>)])

\* the generator expression of interesting_expressions_grouped: each pair that
\* find_expressions yields is judged before the walk goes on
RECURSIVE InterestingFrom(_, _, _, _), Keep(_, _, _, _), Filter(_, _, _, _, _)
InterestingFrom(nodes, i, st, acc) ==
    IF i > Len(nodes) THEN Res(Ok(ListV(acc)), st)
    ELSE IF ~IsExpr(nodes[i]) THEN InterestingFrom(nodes, i + 1, st, acc)
    ELSE Keep(nodes, i, __getitem__(nodes[i], st), acc)

\* r: what self[node] gave
Keep(nodes, i, r, acc) ==
    CASE r.out.k = "CannotEval" -> InterestingFrom(nodes, i + 1, r, acc)
      [] r.out.k = "ok" -> Filter(nodes, i, r, acc, is_expression_interesting(nodes[i], r.out.v))
      [] OTHER -> r

Filter(nodes, i, r, acc, verdict) ==
    IF verdict.k # "ok" THEN Res(verdict, r)
    ELSE IF verdict.v[2]
    THEN InterestingFrom(nodes, i + 1, r, Append(acc, TupleV(<<IntV(nodes[i]), r.out.v>>)))
    ELSE InterestingFrom(nodes, i + 1, r, acc)

\* group_expressions applied to the pairs, when the walk ended without an exception
Grouping(r) ==
    IF r.out.k = "ok" THEN [r EXCEPT !.out = Ok(group_expressions(r.out.v[2]))] ELSE r

interesting_expressions_grouped(r, st) == Grouping(InterestingFrom(walk(r), 1, st, <<>>))

\* two nodes have the same structure, whatever their ctx and their place in the source
RECURSIVE SameStructure(_, _)
SameStructure(a, b) ==
    IF a = 0 \/ b = 0 THEN a = b
    ELSE /\ Nodes[a].kind = Nodes[b].kind
         /\ Nodes[a].name = Nodes[b].name
         /\ Nodes[a].val = Nodes[b].val
         /\ Len(Nodes[a].kids) = Len(Nodes[b].kids)
         /\ Len(Nodes[a].vals) = Len(Nodes[b].vals)
         /\ \A j \in DOMAIN Nodes[a].kids : SameStructure(Nodes[a].kids[j], Nodes[b].kids[j])
         /\ \A j \in DOMAIN Nodes[a].vals : SameStructure(Nodes[a].vals[j], Nodes[b].vals[j])

(***************************************************************************)
(* The state machine                                                       *)
(***************************************************************************)
\* how often the caller retries a node whose evaluation ended in an exception that is not cached
MaxHandled == 2

NotSeen == [k |-> "none", v |-> NoneV]

NoCall == [obj |-> NoneV, attr |-> "", out |-> NotSeen]

\* the objects and attribute names getattr_static is called with
Subjects ==
    {Obj(id) : id \in DOMAIN Objects} \cup {Class(id) : id \in DOMAIN UserClasses}
    \cup {Class("int"), Class("str"), IntV(1), StrV(<<"f", "o", "o">>), Module("sys"), NoneV,
          Function("method")}

AttrNames == {"x", "y", "d", "a", "attr", "prop", "method", "lower", "__add__", "version", "zz"}

\* Evaluator(names): the state of a new session over environment e whose caller holds tree r;
\* handled counts the runs of _handle for each node of that tree
Session(e, r) ==
    /\ names = Envs[e]
    /\ root = Trees[r]
    /\ cache = <<>>
    /\ handled = [n \in TreeNodes(Trees[r]) |-> 0]
    /\ seen = [n \in TreeNodes(Trees[r]) \cup {0} |-> NotSeen]
    /\ last = [op |-> "__init__", node |-> 0, out |-> NotSeen, log |-> <<>>]

Init ==
    /\ \E e \in DOMAIN Envs, r \in DOMAIN Trees : Session(e, r)
    /\ ga = NoCall

\* the evaluator as a call finds it, with an empty log
Self == [names |-> names, cache |-> cache, handled |-> handled, log |-> <<>>]

\* the session after a call that returned r; the caller makes no call that would run
\* _handle more than MaxHandled times for a node
Returned(r) ==
    /\ \A m \in DOMAIN r.handled : r.handled[m] <= MaxHandled
    /\ names' = r.names
    /\ cache' = r.cache
    /\ handled' = r.handled

Answered(node, r) ==
    /\ Returned(r)
    /\ seen' = [seen EXCEPT ![node] = IF @ = NotSeen THEN r.out ELSE @]
    /\ last' = [op |-> "__getitem__", node |-> node, out |-> r.out, log |-> r.log]

Walked(r) ==
    /\ Returned(r)
    /\ last' = [op |-> "find_expressions", node |-> root, out |-> r.out, log |-> r.log]

Grouped(r) ==
    /\ Returned(r)
    /\ last' = [op |-> "interesting_expressions_grouped", node |-> root, out |-> r.out, log |-> r.log]

\* evaluator[node], for a node of the tree the caller holds or an object that is no node
Query(node) ==
    /\ node \in DOMAIN handled \cup {0}
    /\ Answered(node, __getitem__(node, Self))
    /\ UNCHANGED <<root, ga>>

\* list(evaluator.find_expressions(root))
FindExpressions ==
    /\ Walked(find_expressions(root, Self))
    /\ UNCHANGED <<root, seen, ga>>

\* evaluator.interesting_expressions_grouped(root)
InterestingExpressionsGrouped ==
    /\ Grouped(interesting_expressions_grouped(root, Self))
    /\ UNCHANGED <<root, seen, ga>>

Next ==
    \/ \E node \in DOMAIN Nodes \cup {0} : Query(node)
    \/ FindExpressions

Spec == Init /\ [][Next]_vars

\* the sessions whose caller also asks for the interesting groups, over the trees of
\* test_eval_names, test_eval_sequence_subscript (lst[::z]), test_unsupported ({**{}}),
\* test_group_expressions (the two statements) and test_is_expression_interesting
InitGrouped ==
    /\ \E e \in DOMAIN Envs, r \in {1, 4, 43, 46, 47, 48} : Session(e, r)
    /\ ga = NoCall

NextGrouped ==
    \/ \E node \in DOMAIN Nodes \cup {0} : Query(node)
    \/ FindExpressions
    \/ InterestingExpressionsGrouped

SpecGrouped == InitGrouped /\ [][NextGrouped]_vars

\* how many pairs a caller hands to group_expressions
MaxPairs == 2

\* the sequences of (node, value) pairs, as find_expressions yields them, handed to
\* group_expressions: the nodes are the expression nodes of the two statements of
\* test_group_expressions and the subscripts of x[0] + x[x[0]]; group_expressions never
\* looks at the value, so two values are enough to tell which pair the value of a group
\* came from
PairSeqs ==
    LET PairNodes ==
            {n \in TreeNodes(Trees[45]) \cup TreeNodes(Trees[46]) \cup TreeNodes(Trees[47]) :
                IsExpr(n) /\ (n \in TreeNodes(Trees[45]) => Nodes[n].kind = "Subscript")}
        Pairs == {TupleV(<<IntV(n), v>>) : n \in PairNodes, v \in {IntV(1), IntV(2)}}
    IN  UNION {[1..n -> Pairs] : n \in 0..MaxPairs}

\* group_expressions(expressions) for pairs the caller put together; the functions of the
\* module take no evaluator: the caller of a session applies one of them, once
CallGroupExpressions(expressions) ==
    /\ last.op = "__init__"
    /\ last' = [op |-> "group_expressions", node |-> 0, pairs |-> expressions,
                out |-> Ok(group_expressions(expressions)), log |-> <<>>]
    /\ UNCHANGED <<names, root, cache, handled, seen, ga>>

\* group_expressions(evaluator.find_expressions(root))
GroupFound ==
    /\ last.op = "__init__"
    /\ \E r \in {find_expressions(root, Self)} :
            /\ r.out.k = "ok"
            /\ Returned(r)
            /\ last' = [op |-> "group_expressions", node |-> root, pairs |-> r.out.v[2],
                        out |-> Ok(group_expressions(r.out.v[2])), log |-> r.log]
    /\ UNCHANGED <<root, seen, ga>>

\* is_expression_interesting(node, value) for a node of any tree and the value the
\* expression has in the names of the session
CallIsExpressionInteresting(node) ==
    /\ last.op = "__init__"
    /\ IsExpr(node)
    /\ \E e \in {Execute(node)} :
            /\ e.k = "ok"
            /\ last' = [op |-> "is_expression_interesting", node |-> node, value |-> e.v,
                        out |-> is_expression_interesting(node, e.v), log |-> <<>>]
    /\ UNCHANGED <<names, root, cache, handled, seen, ga>>

NextPure ==
    \/ \E expressions \in PairSeqs : CallGroupExpressions(expressions)
    \/ GroupFound
    \/ \E node \in DOMAIN Nodes : CallIsExpressionInteresting(node)

\* a session over the tree of x[0] + x[x[0]]
InitPure ==
    /\ \E e \in DOMAIN Envs : Session(e, 45)
    /\ ga = NoCall

SpecPure == InitPure /\ [][NextPure]_vars

\* getattr_static(obj, attr)
CallGetattrStatic(obj, attr) ==
    /\ ga' = [obj |-> obj, attr |-> attr, out |-> getattr_static(obj, attr)]
    /\ UNCHANGED <<names, root, cache, handled, seen, last>>

NextAttr == \E obj \in Subjects, attr \in AttrNames : CallGetattrStatic(obj, attr)

InitAttr ==
    /\ Session(1, 1)
    /\ ga = NoCall

SpecAttr == InitAttr /\ [][NextAttr]_vars

(***************************************************************************)
(* Properties of the memo table and of the outcomes of evaluator[node]     *)
(***************************************************************************)
\* C1: a query of an expression node that was queried before in the session gives the
\* outcome of the first query: the same value, or CannotEval both times
C1_SameOutcomeAgain ==
    (last.op = "__getitem__" /\ IsExpr(last.node)) => last.out = seen[last.node]

\* C2: once a node has an entry in the memo table (it returned a value or raised
\* CannotEval), no step of the session - a query of it, of a parent, or a walk of
\* find_expressions - runs _handle on it again: _handle ran once for it and never
\* more, and a query of it is answered from its entry
C2_HandledOnce ==
    [][\A n \in DOMAIN cache :
          /\ handled[n] = 1
          /\ handled'[n] = 1
          /\ (last'.op = "__getitem__" /\ last'.node = n)
                => last'.out = (IF cache[n] = CannotEval THEN Raise("CannotEval") ELSE Ok(cache[n]))]_vars

\* a query that the memo table answered, for a node _handle ran once for
C2_Witness ==
    /\ last.op = "__getitem__"
    /\ Len(last.log) = 1
    /\ last.log[1].hit
    /\ handled[last.node] = 1

\* C3: a value that evaluator[node] returns is the value that executing the expression
\* in the names of the session gives
C3_Sound ==
    (last.op = "__getitem__" /\ last.out.k = "ok") => Execute(last.node) = last.out

\* C4: evaluator[node] of an expression node returns a value or raises CannotEval,
\* and no other exception
C4_OnlyCannotEval ==
    (last.op = "__getitem__" /\ IsExpr(last.node)) => last.out.k \in {"ok", "CannotEval"}

\* C5: evaluator[x] of an object that is no ast.expr raises TypeError and leaves the
\* memo table as it was
C5_WrongGetitem ==
    [][(last'.op = "__getitem__" /\ ~IsExpr(last'.node))
          => (last'.out = Raise("TypeError") /\ cache' = cache)]_vars

\* the TypeError of evaluator[x] in a session whose memo table has entries
C5_Witness ==
    /\ last.op = "__getitem__"
    /\ ~IsExpr(last.node)
    /\ last.out = Raise("TypeError")
    /\ DOMAIN cache # {}
    /\ last.node \notin DOMAIN cache

\* C6: when a query evaluates a sub-expression c that raises CannotEval, every call
\* that returns after it is one of an ancestor of c and raises CannotEval too, the
\* memo table holds the marker for c and for these ancestors, the sub-expressions
\* that returned a value before c keep that value in the memo table, and the next
\* query of the node raises CannotEval without running _handle
C6_FailurePropagates ==
    last.op = "__getitem__" =>
        \A i \in DOMAIN last.log :
            (last.log[i].node # last.node /\ last.log[i].out = Raise("CannotEval")) =>
                /\ last.log[i].node \in DOMAIN cache
                /\ cache[last.log[i].node] = CannotEval
                /\ \A j \in DOMAIN last.log : j > i =>
                       /\ last.log[i].node \in TreeNodes(last.log[j].node)
                       /\ last.log[j].out = Raise("CannotEval")
                       /\ last.log[j].node \in DOMAIN cache
                       /\ cache[last.log[j].node] = CannotEval
                /\ \A j \in DOMAIN last.log : (j < i /\ last.log[j].out.k = "ok") =>
                       /\ last.log[j].node \in DOMAIN cache
                       /\ cache[last.log[j].node] = last.log[j].out.v
                /\ LET again == __getitem__(last.node, Self)
                   IN  again.out = Raise("CannotEval") /\ again.handled = handled

\* a query whose first sub-expression returned a value and a later one raised CannotEval
C6_Witness ==
    /\ last.op = "__getitem__"
    /\ Len(last.log) > 2
    /\ last.log[1].out.k = "ok"
    /\ ~last.log[1].hit
    /\ \E i \in DOMAIN last.log : last.log[i].node # last.node /\ last.log[i].out = Raise("CannotEval")
    /\ last.out = Raise("CannotEval")
    /\ cache[last.node] = CannotEval

C8_DescriptorPrecedence ==
    LET obj == ga.obj
        kv == TypeLookup(TypeOf(obj), ga.attr)
        hook(h) == TypeLookup(TypeOf(kv), h) # _sentinel
        readable ==
            \A i \in DOMAIN Classes[TypeOf(obj)].mro :
                LET ns == Classes[Classes[TypeOf(obj)].mro[i]].ns
                IN  "__dict__" \in DOMAIN ns => ns["__dict__"][1] \in {"getset_descriptor", "member_descriptor"}
    IN  (/\ ga.out # NotSeen
         /\ obj[1] # "class"
         /\ readable
         /\ ga.attr \in DOMAIN StoredDict(obj)
         /\ kv # _sentinel) =>
            IF hook("__get__") /\ hook("__set__")
            THEN IF kv[1] \in {"member_descriptor", "wrapper_descriptor", "method_descriptor"}
                 THEN ga.out = DescrGet(kv, obj)
                 ELSE ga.out = Raise("CannotEval")
            ELSE (~hook("__get__") \/ ~hook("__delete__")) => ga.out = Ok(StoredDict(obj)[ga.attr])

\* the call on an instance with an entry d of its own whose class has a descriptor d
\* written in Python with __get__ and __set__
C8_Witness ==
    /\ ga.obj = Obj("fooSet")
    /\ ga.attr = "d"
    /\ "d" \in DOMAIN StoredDict(ga.obj)
    /\ TypeLookup(TypeOf(TypeLookup("FooSet", "d")), "__set__") # _sentinel
    /\ ga.out = Raise("CannotEval")

\* C9: for an instance whose own storage is readable and holds attr, a class-level
\* value whose type defines __get__ and __delete__ and no __set__, and is no slot,
\* wrapper or method descriptor, makes the call raise CannotEval
C9_DeleteOnlyDescriptor ==
    LET obj == ga.obj
        kv == TypeLookup(TypeOf(obj), ga.attr)
        hook(h) == TypeLookup(TypeOf(kv), h) # _sentinel
    IN  (/\ ga.out # NotSeen
         /\ obj[1] # "class"
         /\ _shadowed_dict(TypeOf(obj)) = _sentinel
         /\ ga.attr \in DOMAIN StoredDict(obj)
         /\ kv # _sentinel
         /\ hook("__get__") /\ hook("__delete__") /\ ~hook("__set__")
         /\ kv[1] \notin {"member_descriptor", "wrapper_descriptor", "method_descriptor"}) =>
            ga.out = Raise("CannotEval")

\* C10: for an instance of a class whose hierarchy redefines __dict__ as a property,
\* the call for an attr that the instance was assigned and that is a plain class
\* attribute as well raises CannotEval
C10_ShadowedStorage ==
    LET obj == ga.obj
        kv == TypeLookup(TypeOf(obj), ga.attr)
    IN  (/\ ga.out # NotSeen
         /\ obj[1] # "class"
         /\ \E i \in DOMAIN Classes[TypeOf(obj)].mro :
                LET ns == Classes[Classes[TypeOf(obj)].mro[i]].ns
                IN  "__dict__" \in DOMAIN ns /\ ns["__dict__"][1] = "property"
         /\ ga.attr \in DOMAIN StoredDict(obj)
         /\ kv # _sentinel
         /\ TypeLookup(TypeOf(kv), "__get__") = _sentinel) =>
            ga.out = Raise("CannotEval")

\* C11: getattr_static returns a value or raises CannotEval, and no other exception
C11_ValueOrCannotEval ==
    ga.out # NotSeen => ga.out.k \in {"ok", "CannotEval"}

\* C12: for a class whose own hierarchy lacks attr, a plain value of the metaclass
\* hierarchy is returned, and one whose type defines a __get__ written in Python makes
\* the call raise CannotEval
C12_MetaclassFallback ==
    LET mv == TypeLookup(TypeOf(ga.obj), ga.attr)
    IN  (/\ ga.out # NotSeen
         /\ ga.obj[1] = "class"
         /\ TypeLookup(ga.obj[2], ga.attr) = _sentinel
         /\ mv # _sentinel) =>
            IF TypeLookup(TypeOf(mv), "__get__") = _sentinel THEN ga.out = Ok(mv)
            ELSE mv[1] \notin {"member_descriptor", "wrapper_descriptor", "method_descriptor"}
                     => ga.out = Raise("CannotEval")

\* C13: an Attribute node whose base is a user-defined class or an instance of one and
\* whose attribute names a plain function of the class body evaluates to what the dynamic
\* lookup gives (the function, or the bound method); a property of the class still makes
\* the node raise CannotEval
C13_MethodsEvaluate ==
    LET n == Nodes[last.node]
        base == Execute(n.kids[1])
        cls == IF base.v[1] = "class" THEN base.v[2] ELSE Objects[base.v[2]].cls
    IN  (/\ last.op = "__getitem__"
         /\ IsExpr(last.node)
         /\ n.kind = "Attribute"
         /\ base.k = "ok"
         /\ base.v[1] \in {"class", "obj"}
         /\ cls \in DOMAIN UserClasses
         /\ n.name \in DOMAIN Classes[cls].ns
         /\ n.name \notin DOMAIN StoredDict(base.v)) =>
            CASE Classes[cls].ns[n.name][1] = "function" ->
                    /\ GetAttr(base.v, n.name).k = "ok"
                    /\ last.out = GetAttr(base.v, n.name)
              [] Classes[cls].ns[n.name][1] = "property" -> last.out = Raise("CannotEval")
              [] OTHER -> TRUE

\* C14: a Call with positional, non-starred arguments only, whose callee is one of the
\* allowed built-ins and whose arguments have values, evaluates to the result of the call;
\* a keyword, a starred argument, another callee or a built-in that raises gives CannotEval
C14_CallRule ==
    LET n == Nodes[last.node]
        allowed == {builtins["len"], builtins["abs"], builtins["int"]}
        callee == Execute(n.kids[1])
        args == ExecuteAll(Tail(n.kids), 1, <<>>)
        positional ==
            /\ n.vals = <<>>
            /\ \A j \in 2..Len(n.kids) : Nodes[n.kids[j]].kind # "Starred"
    IN  (/\ last.op = "__getitem__"
         /\ IsExpr(last.node)
         /\ n.kind = "Call") =>
            IF /\ positional
               /\ callee.k = "ok"
               /\ callee.v \in allowed
               /\ args.k = "ok"
               /\ CallValue(callee.v, args.v[2], <<>>).k = "ok"
            THEN last.out = CallValue(callee.v, args.v[2], <<>>)
            ELSE last.out = Raise("CannotEval")

\* C15: a comprehension, a dict display with a ** entry, a list display with a starred
\* element and a call with a starred argument raise CannotEval and nothing else
C15_UnsupportedCannotEval ==
    LET n == Nodes[last.node]
        starred == \E j \in DOMAIN n.kids : n.kids[j] # 0 /\ Nodes[n.kids[j]].kind = "Starred"
    IN  (/\ last.op = "__getitem__"
         /\ IsExpr(last.node)
         /\ \/ n.kind = "ListComp"
            \/ n.kind = "Dict" /\ \E j \in DOMAIN n.kids : n.kids[j] = 0
            \/ n.kind = "List" /\ starred
            \/ n.kind = "Call" /\ starred) =>
            last.out = Raise("CannotEval")

(***************************************************************************)
(* Properties of the grouping and of the interest filter                   *)
(***************************************************************************)
\* C16: group_expressions partitions its input: the node of every input pair is in exactly
\* one group, as often as the input holds it; two input nodes are in the same group if and
\* only if they have the same structure whatever their ctx and their place in the source;
\* the value of a group is the value of the first input pair whose node is in it. For names
\* {x: (1, 2)} and the tree of x[0] + x[x[0]], the two x[0] form one group of value 1 which
\* does not hold the x[x[0]] node, whose group has the value 2
C16_GroupsByStructure ==
    last.op = "group_expressions" =>
        LET groups == last.out.v[2]
            pairs == last.pairs
            Members(g) == groups[g][2][1][2]
            Holds(g, i) == \E j \in DOMAIN Members(g) : Members(g)[j] = pairs[i][2][1]
            Times(seq, n) == Cardinality({j \in DOMAIN seq : seq[j] = n})
            Given(n) == Cardinality({i \in DOMAIN pairs : pairs[i][2][1] = n})
        IN  /\ last.out.k = "ok"
            /\ \A i \in DOMAIN pairs :
                    \E g \in DOMAIN groups :
                        /\ Times(Members(g), pairs[i][2][1]) = Given(pairs[i][2][1])
                        /\ \A h \in DOMAIN groups \ {g} : ~Holds(h, i)
            /\ \A g \in DOMAIN groups :
                    /\ Members(g) # <<>>
                    /\ \A j \in DOMAIN Members(g) : Given(Members(g)[j]) > 0
            /\ \A i, k \in DOMAIN pairs :
                    (\E g \in DOMAIN groups : Holds(g, i) /\ Holds(g, k))
                        <=> SameStructure(pairs[i][2][1][2], pairs[k][2][1][2])
            /\ \A g \in DOMAIN groups, i \in DOMAIN pairs :
                    (Holds(g, i) /\ \A k \in 1..(i - 1) : ~Holds(g, k)) =>
                        groups[g][2][2] = pairs[i][2][2]
            /\ (names = Names2 /\ last.node = 159) =>
                    /\ \E g \in DOMAIN groups :
                            /\ {Members(g)[j] : j \in DOMAIN Members(g)} = {IntV(160), IntV(165)}
                            /\ groups[g][2][2] = IntV(1)
                    /\ \E g \in DOMAIN groups :
                            /\ \E j \in DOMAIN Members(g) : Members(g)[j] = IntV(161)
                            /\ groups[g][2][2] = IntV(2)

\* the pairs found in x[0] + x[x[0]] under {x: (1, 2)} were grouped: both x[0] are pairs
C16_Witness ==
    /\ last.op = "group_expressions"
    /\ names = Names2
    /\ last.node = 159
    /\ \E i, k \in DOMAIN last.pairs :
            /\ last.pairs[i] = TupleV(<<IntV(160), IntV(1)>>)
            /\ last.pairs[k] = TupleV(<<IntV(165), IntV(1)>>)
    /\ Len(last.out.v[2]) < Len(last.pairs)

\* C17: is_expression_interesting(node, value) is False in exactly three cases, and True in
\* every other: the node is a literal (ast.literal_eval accepts it); the value has a type
\* whose __name__ is trusted and that name is the identifier of the Name node or the attr
\* of the Attribute node; the node is a Name and the built-in scope maps that name to that
\* very value. So a built-in under another name (size for len) is interesting, and so is
\* a name bound to something else than the built-in of that name (help bound to 7)
C17_InterestingUnlessObvious ==
    last.op = "is_expression_interesting" =>
        LET n == Nodes[last.node]
            literal == literal_eval(last.node).k = "ok"
            named == /\ n.kind \in {"Name", "Attribute"}
                     /\ TypeOf(last.value) \in safe_name_types
                     /\ __name__(last.value) = <<"str", n.name>>
            builtin == /\ n.kind = "Name"
                       /\ n.name \in DOMAIN builtins
                       /\ builtins[n.name] = last.value
        IN  /\ last.out = Ok(BoolV(~(literal \/ named \/ builtin)))
            /\ (n.kind = "Name" /\ n.name = "size" /\ last.value = builtins["len"]) =>
                    last.out = Ok(BoolV(TRUE))
            /\ (n.kind = "Name" /\ n.name = "help" /\ last.value # builtins["help"]) =>
                    last.out = Ok(BoolV(TRUE))

\* the name help, bound to the built-in help, was judged: only the test for built-ins makes
\* it obvious, as type(help) is no type of safe_name_types
C17_Witness ==
    /\ last.op = "is_expression_interesting"
    /\ Nodes[last.node].kind = "Name"
    /\ Nodes[last.node].name = "help"
    /\ last.value = builtins["help"]
    /\ TypeOf(last.value) \notin safe_name_types
    /\ last.out = Ok(BoolV(FALSE))

(***************************************************************************)
(* Properties of the walk, of the environment and of and/or chains         *)
(***************************************************************************)
\* C18: find_expressions(root) ends without an exception and yields exactly one pair
\* (n, evaluator[n]) for every expression node n under root whose evaluation succeeds and
\* no pair for a node whose evaluation raises CannotEval; a failing node neither stops the
\* walk nor hides its descendants and siblings; iterating again gives the same pairs
C18_WalkYieldsEveryValue ==
    last.op = "find_expressions" =>
        /\ last.out.k = "ok"
        /\ \A n \in TreeNodes(root) :
                IsExpr(n) =>
                    LET given == {j \in DOMAIN last.out.v[2] : last.out.v[2][j][2][1] = IntV(n)}
                    IN  IF __getitem__(n, Self).out.k = "ok"
                        THEN /\ Cardinality(given) = 1
                             /\ \A j \in given : last.out.v[2][j][2][2] = __getitem__(n, Self).out.v
                        ELSE given = {}
        /\ find_expressions(root, Self).out = last.out

\* C19: no call of evaluator[node], find_expressions or interesting_expressions_grouped
\* changes the names environment, neither the set of names nor any binding, whether the
\* call returns a value or raises; of the evaluator only the memo table changes
C19_EnvironmentUntouched == [][names' = names /\ root' = root]_vars

\* interesting_expressions_grouped has returned and the memo table holds both a value and
\* the mark of a CannotEval
C19_Witness ==
    /\ last.op = "interesting_expressions_grouped"
    /\ last.out.k = "ok"
    /\ \E n \in DOMAIN cache : cache[n] = CannotEval /\ Nodes[n].kind = "Name"
    /\ \E n \in DOMAIN cache : cache[n] # CannotEval

\* C20: when _handle runs for an and/or chain, the operands are evaluated left to right up
\* to the first that decides the chain (a true operand of `or`, a false one of `and`, or
\* the last): the result is the value of that operand, the operands after it are not
\* evaluated, so that what they are cannot fail the chain, and an operand that is
\* evaluated but fails, or whose exact type is not allowed, makes the chain raise CannotEval
C20_ShortCircuit ==
    LET n == Nodes[last.node]
        log == last.log
        Out(j) == __getitem__(n.kids[j], Self).out
        Fails(j) == Out(j).k # "ok" \/ TypeOf(Out(j).v) \notin allowed_types_boolop
        Decides(j) == \/ n.name = "Or" /\ RealTruth(Out(j).v)
                      \/ n.name = "And" /\ ~RealTruth(Out(j).v)
        Ends(j) == Fails(j) \/ Decides(j) \/ j = Len(n.kids)
        stop == CHOOSE j \in DOMAIN n.kids : Ends(j) /\ \A k \in 1..(j - 1) : ~Ends(k)
        At(j) == {p \in DOMAIN log : log[p].node = n.kids[j]}
    IN  (/\ last.op = "__getitem__"
         /\ IsExpr(last.node)
         /\ n.kind = "BoolOp"
         /\ ~log[Len(log)].hit) =>
            /\ \A j \in 1..stop : Cardinality(At(j)) = 1
            /\ \A j, k \in 1..stop : j < k => \A p \in At(j), q \in At(k) : p < q
            /\ \A j \in DOMAIN n.kids : j > stop => At(j) = {}
            /\ last.out = IF Fails(stop) THEN Raise("CannotEval") ELSE Ok(Out(stop).v)

(***************************************************************************)
(* Properties of binary operators, of displays and of the memo table       *)
(***************************************************************************)
\* C21: a BinOp evaluates to the primitive applied to its operands only when its operator
\* is in the operator map, both operands evaluate to values whose exact type is one of
\* int, float, complex, bool, str, bytes, range, list, tuple and, for % with a str or
\* bytes on the left, the right operand is no list and no tuple; an operator outside the
\* map, an operand of another exact type, a list or tuple on the right of a format %, or a
\* failure of the primitive gives CannotEval
C21_BinOpRule ==
    LET n == Nodes[last.node]
        left == __getitem__(n.kids[1], Self).out
        right == __getitem__(n.kids[2], Self).out
        Typed(o) ==
            /\ o.k = "ok"
            /\ TypeOf(o.v) \in {"int", "float", "complex", "bool", "str", "bytes", "range", "list", "tuple"}
        mapped ==
            n.name \in {"Add", "Sub", "Mult", "Div", "FloorDiv", "Mod", "Pow", "LShift", "RShift",
                        "BitOr", "BitXor", "BitAnd"}
        refused ==
            /\ n.name = "Mod"
            /\ TypeOf(left.v) \in {"str", "bytes"}
            /\ TypeOf(right.v) \in {"list", "tuple"}
        primitive == PyBinary(n.name, left.v, right.v)
    IN  (last.op = "__getitem__" /\ IsExpr(last.node) /\ n.kind = "BinOp") =>
            /\ last.out.k = "ok" =>
                    /\ mapped
                    /\ Typed(left)
                    /\ Typed(right)
                    /\ ~refused
                    /\ last.out = primitive
            /\ ~mapped => last.out = Raise("CannotEval")
            /\ (left.k = "ok" /\ ~Typed(left)) => last.out = Raise("CannotEval")
            /\ (Typed(left) /\ right.k = "ok" /\ ~Typed(right)) => last.out = Raise("CannotEval")
            /\ (mapped /\ Typed(left) /\ Typed(right)) =>
                    last.out = IF ~refused /\ primitive.k = "ok" THEN primitive ELSE Raise("CannotEval")

\* a str % list was asked for: the primitive would have formatted the list, and the
\* evaluator raised CannotEval
C21_Witness ==
    /\ last.op = "__getitem__"
    /\ IsExpr(last.node)
    /\ Nodes[last.node].kind = "BinOp"
    /\ Nodes[last.node].name = "Mod"
    /\ cache[Nodes[last.node].kids[1]][1] = "str"
    /\ cache[Nodes[last.node].kids[2]][1] = "list"
    /\ PyBinary("Mod", cache[Nodes[last.node].kids[1]], cache[Nodes[last.node].kids[2]]).k = "ok"
    /\ last.out = Raise("CannotEval")

\* C22: a list or tuple display evaluates to its element values in source order whenever
\* every element evaluates; a set or dict display evaluates only if, in addition, every
\* element (set) or key (dict) value passes safe_hash_key, each dict key being paired with
\* the value of its own value expression, and otherwise raises CannotEval (stated of the
\* queries that construct the display, not of those answered from the memo table)
C22_ContainerRule ==
    LET n == Nodes[last.node]
        at(e) == {i \in DOMAIN last.log : last.log[i].node = e}
        \* what the display got for a child: the outcome of the child's evaluation during
        \* this query, or what evaluating it gives where the display did not ask for it
        outcome(e) ==
            IF at(e) = {} THEN __getitem__(e, Self).out
            ELSE last.log[CHOOSE i \in at(e) : \A j \in at(e) : j <= i].out
        elt(j) == outcome(n.kids[j])
        val(j) == outcome(n.vals[j])
        elts == [j \in DOMAIN n.kids |-> elt(j).v]
        RECURSIVE Paired(_)
        Paired(j) == IF j = 0 THEN <<>> ELSE DictSet(Paired(j - 1), elts[j], val(j).v)
        evaluates == \A j \in DOMAIN n.kids : elt(j).k = "ok"
        hashable ==
            /\ evaluates
            /\ \A j \in DOMAIN n.kids : safe_hash_key(elts[j])
            /\ n.kind = "Dict" => \A j \in DOMAIN n.vals : val(j).k = "ok"
    IN  (last.op = "__getitem__" /\ IsExpr(last.node) /\ ~last.log[Len(last.log)].hit) =>
            /\ (n.kind = "List" /\ evaluates) => last.out = Ok(ListV(elts))
            /\ (n.kind = "Tuple" /\ evaluates) => last.out = Ok(TupleV(elts))
            /\ n.kind = "Set" =>
                    last.out = IF hashable THEN Ok(SetV(SetOf(elts, Len(elts)))) ELSE Raise("CannotEval")
            /\ n.kind = "Dict" =>
                    last.out = IF hashable THEN Ok(DictV(Paired(Len(elts)), 0)) ELSE Raise("CannotEval")

\* C23: the memo table starts empty and every step of a session (a query, a walk of
\* find_expressions, a call of interesting_expressions_grouped) keeps every entry it finds
\* as it is; a key the step adds is an expression node, the queried node or a node below it
\* (for the walks, a node of the walked tree), which the step evaluated, and its entry is
\* the value the evaluation returned or the CannotEval marker if it raised CannotEval
C23_MemoTable ==
    [][/\ \A k \in DOMAIN cache : k \in DOMAIN cache' /\ cache'[k] = cache[k]
       /\ \A k \in DOMAIN cache' \ DOMAIN cache :
            /\ IsExpr(k)
            /\ k \in TreeNodes(last'.node)
            /\ \E i \in DOMAIN last'.log :
                    /\ last'.log[i].node = k
                    /\ ~last'.log[i].hit
                    /\ \/ last'.log[i].out.k = "ok" /\ cache'[k] = last'.log[i].out.v
                       \/ last'.log[i].out = Raise("CannotEval") /\ cache'[k] = CannotEval]_vars

\* after one query and a later operation the memo table holds, for nodes the caller never
\* asked for, both a value and the CannotEval marker, next to the entry of the queried node
C23_Witness ==
    /\ last.op \in {"find_expressions", "interesting_expressions_grouped"}
    /\ cache # <<>>
    /\ \E q \in DOMAIN cache :
            /\ seen[q] # NotSeen
            /\ \E k \in TreeNodes(q) \ {q} : k \in DOMAIN cache /\ seen[k] = NotSeen /\ cache[k] = CannotEval
            /\ \E k \in TreeNodes(q) \ {q} : k \in DOMAIN cache /\ seen[k] = NotSeen /\ cache[k] # CannotEval

====
